---------------------------- MODULE Spec2Model ----------------------------
(***************************************************************************)
(* StudyBuddy WhatsApp AI: the session store (app/services/               *)
(* session_manager.py), the monthly conversation tracker (same file) and  *)
(* the per-user rate limiter (app/utils/rate_limit.py).                    *)
(*                                                                         *)
(* Every method of the source is an operator that maps the object before  *)
(* the call to the object after it (and the value returned); every action *)
(* is one call of a method on the process-wide singletons.                 *)
(***************************************************************************)
EXTENDS Integers, Sequences, FiniteSets, TLC

VARIABLES
    sessions,   \* SessionManager._sessions: phone -> UserSession
    today,      \* the calendar date date.today() returns (a day ordinal)
    now,        \* the reading of time.time(), in seconds
    tracker,    \* the ConversationTracker singleton
    store,      \* RateLimiter._store: user_id -> <<count, first_request_timestamp>>
    call,       \* the last method call: its arguments, its result, the object before it
    appended,   \* observer: phone -> every entry handed to add_message, in call order
    rl_window,  \* observer: user_id -> start of the running window and calls made in it
    obs,        \* observer: the counts and marks the properties below are stated over
    procs,      \* the inbound events in flight: each one's coroutines still to run
    files       \* the paths that exist in the downloads directory

\* the state of the event loop and of the disk
flow == <<procs, files>>

vars == <<sessions, today, now, tracker, store, call, appended, rl_window, obs, flow>>

----------------------------------------------------------------------------
(* Bounds of the model                                                     *)

\* the senders, and those of them that use the session store and the rate limiter
Phones == {"u1", "u2", "u3"}
Students == {"u1", "u2"}

\* the calendar is scaled down: a month has DaysPerMonth days, a year MonthsPerYear months
DaysPerMonth == 3
MonthsPerYear == 2
MaxDay == 8

\* record_activity calls per user (docs_processed is unbounded in the code)
MaxDocs == 4

\* ConversationTracker(monthly_limit=...) as the model constructs it
MonthlyLimit == 2

\* the clock of the rate limiter advances TimeStep seconds at a time, MaxTicks times
TimeStep == 1200
MaxTicks == 4
\* is_allowed calls observed per user and window
MaxWindowCalls == 7

\* add_message calls per user
MaxAppends == 25

\* inbound events in a run, and events whose coroutines are still running
MaxEvents == 3
MaxInFlight == 2
\* the SessionManager calls of a run of the manager alone
MaxSessionOps == 3
\* the events of a run of the document flows: an upload, a language, two selections
MaxDocEvents == 4
\* the uploads of a run: the uploads the rate limiter admits in a window, and two more
MaxUploads == 7
\* the chat events of a run: the welcome, the turns that fill the context of the model,
\* and one more
MaxTurns == 8
\* the turns of the conversation a student has behind them
BacklogTurns == 9

\* next_flashcard calls past the last card of a deck (flash_index is unbounded in the code)
MaxOverrun == 2

----------------------------------------------------------------------------
(* Python values                                                           *)

\* Optional[T]: None is the empty tuple, a value x is <<x>>
None == <<>>
Some(x) == <<x>>

\* dict.get(key, default)
DictGet(d, k, default) == IF k \in DOMAIN d THEN d[k] ELSE default

\* str.upper() on the strings the model uses
Upper(s) ==
    CASE s = "a" -> "A"
      [] s = "b" -> "B"
      [] s = "c" -> "C"
      [] OTHER -> s

\* date.month and date.year of a day ordinal in the scaled calendar
MonthOf(d) == ((d \div DaysPerMonth) % MonthsPerYear) + 1
YearOf(d) == d \div (DaysPerMonth * MonthsPerYear)

\* list[-n:]
LastN(seq, n) ==
    IF Len(seq) <= n THEN seq ELSE SubSeq(seq, Len(seq) - n + 1, Len(seq))

----------------------------------------------------------------------------
(* UserSession                                                             *)

max_history == 20

UserSession(phone) ==
    [ phone              |-> phone,
      first_visit        |-> TRUE,
      media_id           |-> None,
      filename           |-> None,
      doc_text_chunks    |-> None,
      language           |-> "English",
      chat_history       |-> <<>>,
      quiz_questions     |-> <<>>,
      quiz_index         |-> 0,
      quiz_score         |-> 0,
      quiz_active        |-> FALSE,
      flashcards         |-> <<>>,
      flash_index        |-> 0,
      flash_active       |-> FALSE,
      flash_revealed     |-> FALSE,
      docs_processed     |-> 0,
      last_activity_date |-> None,
      streak             |-> 0 ]

\* a broken manager: keeps the session of the last caller only
get_last_caller_only(ss, phone) ==
    phone :> (IF phone \in DOMAIN ss THEN ss[phone] ELSE UserSession(phone))

\* SessionManager.get: the sessions after the call (the session is created on first use)
get(ss, phone) ==
    IF phone \in DOMAIN ss THEN ss ELSE ss @@ (phone :> UserSession(phone))

\* the session get returns
session_of(ss, phone) == get(ss, phone)[phone]


----------------------------------------------------------------------------
(* SessionManager: conversation history                                    *)

\* a broken trim: keeps the oldest max_history entries
add_message_keeps_oldest(ss, phone, role, content) ==
    LET g == get(ss, phone)
        h == Append(g[phone].chat_history, [role |-> role, content |-> content])
    IN  [g EXCEPT ![phone].chat_history =
            IF Len(h) > max_history THEN SubSeq(h, 1, max_history) ELSE h]

add_message(ss, phone, role, content) ==
    LET g == get(ss, phone)
        h == Append(g[phone].chat_history, [role |-> role, content |-> content])
    IN  [g EXCEPT ![phone].chat_history =
            IF Len(h) > max_history THEN LastN(h, max_history) ELSE h]

get_history(ss, phone) == session_of(ss, phone).chat_history

\* a broken reset: the runs of the session are abandoned with the history
clear_history_ends_runs(ss, phone) ==
    [get(ss, phone) EXCEPT ![phone].chat_history = <<>>,
                           ![phone].quiz_active = FALSE,
                           ![phone].flash_active = FALSE]

clear_history(ss, phone) == [get(ss, phone) EXCEPT ![phone].chat_history = <<>>]

----------------------------------------------------------------------------
(* SessionManager: quiz                                                    *)

start_quiz(ss, phone, questions) ==
    [get(ss, phone) EXCEPT ![phone].quiz_questions = questions,
                           ![phone].quiz_index = 0,
                           ![phone].quiz_score = 0,
                           ![phone].quiz_active = TRUE]

get_current_question(ss, phone) ==
    LET s == session_of(ss, phone)
    IN  IF s.quiz_index < Len(s.quiz_questions)
        THEN Some(s.quiz_questions[s.quiz_index + 1])
        ELSE None

\* the result of answer_quiz: the sessions after it and the returned tuple
QuizResult(ss, is_correct, correct, is_last) ==
    [ss |-> ss, ret |-> [is_correct |-> is_correct, correct |-> correct, is_last |-> is_last]]

\* broken variants of answer_quiz
\* (a) compares the letters as they are, without upper()
answer_quiz_case_sensitive(ss, phone, answer) ==
    LET g == get(ss, phone)
        s == g[phone]
    IN  IF ~s.quiz_active \/ s.quiz_index >= Len(s.quiz_questions)
        THEN QuizResult(g, FALSE, "", TRUE)
        ELSE LET q == s.quiz_questions[s.quiz_index + 1]
                 correct == Upper(DictGet(q, "correct", ""))
                 is_correct == (answer = DictGet(q, "correct", ""))
                 index == s.quiz_index + 1
                 is_last == index >= Len(s.quiz_questions)
             IN  QuizResult(
                    [g EXCEPT ![phone].quiz_score = IF is_correct THEN @ + 1 ELSE @,
                              ![phone].quiz_index = index,
                              ![phone].quiz_active = IF is_last THEN FALSE ELSE @],
                    is_correct, correct, is_last)

\* (b) reports the last question one answer late
answer_quiz_late_last(ss, phone, answer) ==
    LET g == get(ss, phone)
        s == g[phone]
    IN  IF ~s.quiz_active \/ s.quiz_index >= Len(s.quiz_questions)
        THEN QuizResult(g, FALSE, "", TRUE)
        ELSE LET q == s.quiz_questions[s.quiz_index + 1]
                 correct == Upper(DictGet(q, "correct", ""))
                 is_correct == (Upper(answer) = correct)
                 index == s.quiz_index + 1
                 is_last == index > Len(s.quiz_questions)
             IN  QuizResult(
                    [g EXCEPT ![phone].quiz_score = IF is_correct THEN @ + 1 ELSE @,
                              ![phone].quiz_index = index,
                              ![phone].quiz_active = IF is_last THEN FALSE ELSE @],
                    is_correct, correct, is_last)

\* (c) counts the answer before it looks whether the quiz is still running
answer_quiz_counts_stale(ss, phone, answer) ==
    LET g == get(ss, phone)
        s == g[phone]
    IN  IF ~s.quiz_active \/ s.quiz_index >= Len(s.quiz_questions)
        THEN QuizResult([g EXCEPT ![phone].quiz_index = @ + 1], FALSE, "", TRUE)
        ELSE LET q == s.quiz_questions[s.quiz_index + 1]
                 correct == Upper(DictGet(q, "correct", ""))
                 is_correct == (Upper(answer) = correct)
                 index == s.quiz_index + 1
                 is_last == index >= Len(s.quiz_questions)
             IN  QuizResult(
                    [g EXCEPT ![phone].quiz_score = IF is_correct THEN @ + 1 ELSE @,
                              ![phone].quiz_index = index,
                              ![phone].quiz_active = IF is_last THEN FALSE ELSE @],
                    is_correct, correct, is_last)

\* (d) the score is written from a copy read before the answers in flight: a correct
\* answer leaves it at one
answer_quiz_overwrites_score(ss, phone, answer) ==
    LET g == get(ss, phone)
        s == g[phone]
    IN  IF ~s.quiz_active \/ s.quiz_index >= Len(s.quiz_questions)
        THEN QuizResult(g, FALSE, "", TRUE)
        ELSE LET q == s.quiz_questions[s.quiz_index + 1]
                 correct == Upper(DictGet(q, "correct", ""))
                 is_correct == (Upper(answer) = correct)
                 index == s.quiz_index + 1
                 is_last == index >= Len(s.quiz_questions)
             IN  QuizResult(
                    [g EXCEPT ![phone].quiz_score = IF is_correct THEN 1 ELSE @,
                              ![phone].quiz_index = index,
                              ![phone].quiz_active = IF is_last THEN FALSE ELSE @],
                    is_correct, correct, is_last)

answer_quiz(ss, phone, answer) ==
    LET g == get(ss, phone)
        s == g[phone]
    IN  IF ~s.quiz_active \/ s.quiz_index >= Len(s.quiz_questions)
        THEN QuizResult(g, FALSE, "", TRUE)
        ELSE LET q == s.quiz_questions[s.quiz_index + 1]
                 correct == Upper(DictGet(q, "correct", ""))
                 is_correct == (Upper(answer) = correct)
                 index == s.quiz_index + 1
                 is_last == index >= Len(s.quiz_questions)
             IN  QuizResult(
                    [g EXCEPT ![phone].quiz_score = IF is_correct THEN @ + 1 ELSE @,
                              ![phone].quiz_index = index,
                              ![phone].quiz_active = IF is_last THEN FALSE ELSE @],
                    is_correct, correct, is_last)

----------------------------------------------------------------------------
(* SessionManager: study streak                                            *)

\* broken variants of record_activity
\* (a) a call on the day of last_activity_date restarts the streak
record_activity_same_day_resets(ss, phone, d) ==
    LET g == get(ss, phone)
        s == g[phone]
        streak ==
            IF s.last_activity_date = None THEN 1
            ELSE IF d - s.last_activity_date[1] = 1 THEN s.streak + 1
            ELSE 1
    IN  [g EXCEPT ![phone].docs_processed = @ + 1,
                  ![phone].streak = streak,
                  ![phone].last_activity_date = Some(d)]

\* (b) the total is counted once per day
record_activity_total_once_a_day(ss, phone, d) ==
    LET g == get(ss, phone)
        s == g[phone]
        streak ==
            IF s.last_activity_date = None THEN 1
            ELSE IF s.last_activity_date = Some(d) THEN s.streak
            ELSE IF d - s.last_activity_date[1] = 1 THEN s.streak + 1
            ELSE 1
    IN  [g EXCEPT ![phone].docs_processed =
                        IF s.last_activity_date = Some(d) THEN @ ELSE @ + 1,
                  ![phone].streak = streak,
                  ![phone].last_activity_date = Some(d)]

\* d is date.today() at the call
record_activity(ss, phone, d) ==
    LET g == get(ss, phone)
        s == g[phone]
        streak ==
            IF s.last_activity_date = None THEN 1
            ELSE IF s.last_activity_date = Some(d) THEN s.streak
            ELSE IF d - s.last_activity_date[1] = 1 THEN s.streak + 1
            ELSE 1
    IN  [g EXCEPT ![phone].docs_processed = @ + 1,
                  ![phone].streak = streak,
                  ![phone].last_activity_date = Some(d)]

----------------------------------------------------------------------------
(* ConversationTracker                                                     *)

\* ConversationTracker(monthly_limit) constructed on day d
ConversationTracker(monthly_limit, d) ==
    [ monthly_limit      |-> monthly_limit,
      current_month      |-> MonthOf(d),
      current_year       |-> YearOf(d),
      daily_users        |-> <<>>,
      conversation_count |-> 0 ]

\* a broken reset: adopts the new period and keeps the count
reset_keeps_count(t, d) ==
    IF MonthOf(d) # t.current_month \/ YearOf(d) # t.current_year
    THEN [t EXCEPT !.current_month = MonthOf(d),
                   !.current_year = YearOf(d),
                   !.daily_users = <<>>]
    ELSE t

\* d is date.today() at the call
reset_if_new_month(t, d) ==
    IF MonthOf(d) # t.current_month \/ YearOf(d) # t.current_year
    THEN [t EXCEPT !.current_month = MonthOf(d),
                   !.current_year = YearOf(d),
                   !.daily_users = <<>>,
                   !.conversation_count = 0]
    ELSE t

\* broken variants of ConversationTracker.is_allowed
\* (a) counts every call, also of a user already counted today
tracker_is_allowed_counts_repeats(t0, phone, d) ==
    LET t == reset_if_new_month(t0, d)
    IN  IF t.conversation_count >= t.monthly_limit
        THEN [tracker |-> t, ret |-> FALSE]
        ELSE [tracker |-> [t EXCEPT
                    !.daily_users = (phone :> Some(d)) @@ @,
                    !.conversation_count = @ + 1],
              ret |-> TRUE]

\* (b) records the user before it checks the limit
tracker_is_allowed_records_first(t0, phone, d) ==
    LET t == reset_if_new_month(t0, d)
        last_date == DictGet(t.daily_users, phone, None)
    IN  IF last_date = Some(d)
        THEN [tracker |-> t, ret |-> TRUE]
        ELSE IF t.conversation_count >= t.monthly_limit
        THEN [tracker |-> [t EXCEPT !.daily_users = (phone :> Some(d)) @@ @],
              ret |-> FALSE]
        ELSE [tracker |-> [t EXCEPT
                    !.daily_users = (phone :> Some(d)) @@ @,
                    !.conversation_count = @ + 1],
              ret |-> TRUE]

\* a broken check: one user more than monthly_limit is admitted
tracker_is_allowed_over_limit(t0, phone, d) ==
    LET t == reset_if_new_month(t0, d)
        last_date == DictGet(t.daily_users, phone, None)
    IN  IF last_date = Some(d)
        THEN [tracker |-> t, ret |-> TRUE]
        ELSE IF t.conversation_count > t.monthly_limit
        THEN [tracker |-> t, ret |-> FALSE]
        ELSE [tracker |-> [t EXCEPT
                    !.daily_users = (phone :> Some(d)) @@ @,
                    !.conversation_count = @ + 1],
              ret |-> TRUE]

\* ConversationTracker.is_allowed; daily_users maps a phone to Some(date)
tracker_is_allowed(t0, phone, d) ==
    LET t == reset_if_new_month(t0, d)
        last_date == DictGet(t.daily_users, phone, None)
    IN  IF last_date = Some(d)
        THEN [tracker |-> t, ret |-> TRUE]
        ELSE IF t.conversation_count >= t.monthly_limit
        THEN [tracker |-> t, ret |-> FALSE]
        ELSE [tracker |-> [t EXCEPT
                    !.daily_users = (phone :> Some(d)) @@ @,
                    !.conversation_count = @ + 1],
              ret |-> TRUE]

\* round(n / d) as Python 3 rounds: to the nearest integer, a tie to the even one
Round(n, d) ==
    LET q == n \div d
        r == n % d
    IN  IF 2 * r < d THEN q
        ELSE IF 2 * r > d THEN q + 1
        ELSE IF q % 2 = 0 THEN q ELSE q + 1

\* the figures get_usage_stats formats into its message
get_usage_stats(t0, d) ==
    LET t == reset_if_new_month(t0, d)
        pct == Round(t.conversation_count * 100, t.monthly_limit)
    IN  [tracker |-> t,
         ret |-> [used      |-> t.conversation_count,
                  limit     |-> t.monthly_limit,
                  remaining |-> t.monthly_limit - t.conversation_count,
                  pct       |-> pct,
                  filled    |-> pct \div 10]]

----------------------------------------------------------------------------
(* RateLimiter                                                             *)

\* rate_limiter = RateLimiter(limit=5, window_seconds=3600)
limit == 5
window_seconds == 3600

\* broken variants of RateLimiter.is_allowed
\* (a) admits one call too many in a window
rate_is_allowed_off_by_one(st, user_id, t) ==
    IF user_id \notin DOMAIN st
    THEN [store |-> (user_id :> [count |-> 1, first |-> t]) @@ st, ret |-> TRUE]
    ELSE LET count == st[user_id].count
             first_req_time == st[user_id].first
         IN  IF t - first_req_time > window_seconds
             THEN [store |-> [st EXCEPT ![user_id] = [count |-> 1, first |-> t]],
                   ret |-> TRUE]
             ELSE IF count <= limit
             THEN [store |-> [st EXCEPT ![user_id] =
                                [count |-> count + 1, first |-> first_req_time]],
                   ret |-> TRUE]
             ELSE [store |-> st, ret |-> FALSE]

\* t is time.time() at the call
rate_is_allowed(st, user_id, t) ==
    IF user_id \notin DOMAIN st
    THEN [store |-> (user_id :> [count |-> 1, first |-> t]) @@ st, ret |-> TRUE]
    ELSE LET count == st[user_id].count
             first_req_time == st[user_id].first
         IN  IF t - first_req_time > window_seconds
             THEN [store |-> [st EXCEPT ![user_id] = [count |-> 1, first |-> t]],
                   ret |-> TRUE]
             ELSE IF count < limit
             THEN [store |-> [st EXCEPT ![user_id] =
                                [count |-> count + 1, first |-> first_req_time]],
                   ret |-> TRUE]
             ELSE [store |-> st, ret |-> FALSE]

----------------------------------------------------------------------------
(* SessionManager: first visit, document, language                         *)

\* a broken flag: never lowered
is_first_visit_every_time(ss, phone) ==
    LET g == get(ss, phone)
    IN  [ss |-> g, ret |-> g[phone].first_visit]

is_first_visit(ss, phone) ==
    LET g == get(ss, phone)
    IN  IF g[phone].first_visit
        THEN [ss |-> [g EXCEPT ![phone].first_visit = FALSE], ret |-> TRUE]
        ELSE [ss |-> g, ret |-> FALSE]

\* a broken upload: the chunks of the document before stay cached
store_document_keeps_chunks(ss, phone, media_id, filename) ==
    [get(ss, phone) EXCEPT ![phone].media_id = Some(media_id),
                           ![phone].filename = Some(filename)]

store_document(ss, phone, media_id, filename) ==
    [get(ss, phone) EXCEPT ![phone].media_id = Some(media_id),
                           ![phone].filename = Some(filename),
                           ![phone].doc_text_chunks = None]

store_chunks(ss, phone, chunks) ==
    [get(ss, phone) EXCEPT ![phone].doc_text_chunks = Some(chunks)]

get_document(ss, phone) ==
    <<session_of(ss, phone).media_id, session_of(ss, phone).filename>>

set_language(ss, phone, language) ==
    [get(ss, phone) EXCEPT ![phone].language = language]

get_language(ss, phone) == session_of(ss, phone).language

----------------------------------------------------------------------------
(* SessionManager: flashcards                                              *)

start_flashcards(ss, phone, cards) ==
    [get(ss, phone) EXCEPT ![phone].flashcards = cards,
                           ![phone].flash_index = 0,
                           ![phone].flash_active = TRUE,
                           ![phone].flash_revealed = FALSE]

\* Optional[Dict]: the card under flash_index, None past the last card
get_current_flashcard(ss, phone) ==
    LET s == session_of(ss, phone)
    IN  IF s.flash_index < Len(s.flashcards)
        THEN Some(s.flashcards[s.flash_index + 1])
        ELSE None

reveal_flashcard(ss, phone) ==
    [get(ss, phone) EXCEPT ![phone].flash_revealed = TRUE]

\* a broken end: the deck is closed one advance late
next_flashcard_late_end(ss, phone) ==
    LET g == get(ss, phone)
        index == g[phone].flash_index + 1
        more == index <= Len(g[phone].flashcards)
    IN  [ss |-> [g EXCEPT ![phone].flash_index = index,
                          ![phone].flash_revealed = FALSE,
                          ![phone].flash_active = IF more THEN @ ELSE FALSE],
         ret |-> more]

\* a broken advance: the next card comes up already revealed
next_flashcard_keeps_revealed(ss, phone) ==
    LET g == get(ss, phone)
        index == g[phone].flash_index + 1
        more == index < Len(g[phone].flashcards)
    IN  [ss |-> [g EXCEPT ![phone].flash_index = index,
                          ![phone].flash_active = IF more THEN @ ELSE FALSE],
         ret |-> more]

next_flashcard(ss, phone) ==
    LET g == get(ss, phone)
        index == g[phone].flash_index + 1
        more == index < Len(g[phone].flashcards)
    IN  [ss |-> [g EXCEPT ![phone].flash_index = index,
                          ![phone].flash_revealed = FALSE,
                          ![phone].flash_active = IF more THEN @ ELSE FALSE],
         ret |-> more]

----------------------------------------------------------------------------
(* Inputs                                                                  *)

\* generated questions: a stored letter in upper case, one in lower case, none at all
Questions ==
    << [question |-> "q1", correct |-> "A"],
       [question |-> "q2", correct |-> "b"],
       [question |-> "q3"] >>

\* the question lists a generation can yield: the runs of Questions
QuizBank ==
    { SubSeq(Questions, i, j) : i \in 1..Len(Questions), j \in 1..Len(Questions) }

\* two letters that differ at most in case
SameLetter(a, b) ==
    \E c \in {{"A", "a"}, {"B", "b"}, {"C", "c"}, {""}} : a \in c /\ b \in c

\* the letters an answer can carry
Answers == {"A", "a", "B", "b", ""}

\* generate_flashcards returns at most max_flashcards cards: decks of one card, of two
\* cards and of max_flashcards cards
max_flashcards == 7
\* generate_quiz returns at most max_questions questions
max_questions == 5
Deck(n) == [i \in 1..n |-> [front |-> i, back |-> i]]
Decks == { Deck(n) : n \in {1, 2, max_flashcards} }

\* generations that are JSON lists of items without the keys the flows read: a second
\* question without its text, a first card without its back and a second without its
\* front
PartialQuiz == << [question |-> "q1", correct |-> "A"], [correct |-> "B"] >>
PartialDeck == << [front |-> 1], [back |-> 2] >>

\* the documents users upload, by media id: two readable PDFs and one that cannot be read
Media == {"m1", "m2", "m3"}
Filename(m) == CASE m = "m1" -> "a.pdf" [] m = "m2" -> "b.pdf" [] OTHER -> "document.pdf"

\* pdf_processor.extract_and_chunk_text on the downloaded file: the chunks of a PDF
\* that is read, the empty list when opening the file or loading a page raises
extract_and_chunk_text(m) ==
    CASE m = "m1" -> <<"a1", "a2">>
      [] m = "m2" -> <<"b1">>
      [] OTHER -> <<>>

\* the n-th entry a user's flows hand to add_message: the user's message, then the reply
Entry(n) == [role |-> IF n % 2 = 1 THEN "user" ELSE "assistant", content |-> n]

----------------------------------------------------------------------------
(* The collaborators of the flows                                          *)

\* Python truth of an Optional[List]: None and the empty list are false
Truthy(x) == x # None /\ x[1] # <<>>

\* download_media writes downloads/<media_id>.<extension>
Path(m, extension) == <<m, extension>>

\* what awaiting download_media yields: the path of the written file, None after a
\* failed request, or an OSError raised by os.makedirs
Downloads == {"file", "none", "raise"}

\* what chat_with_memory returns: the reply of the model, or the text of its except
\* clause after a generation that raised
Replies == {"response", "sorry"}

\* chat_history[-10:] in chat_with_memory
context_size == 10

\* the state of an uploaded file as genai.upload_file and genai.get_file report it
FileStates == {"PROCESSING", "ACTIVE"}

\* pdf_processor.validate_pdf: the file must exist and open as a PDF (the media the
\* model names are PDFs, m3 one that opens but has a page that cannot be loaded; any
\* other is not)
validate_pdf(fs, path) ==
    IF path \notin fs THEN [ok |-> FALSE, msg |-> "File not found."]
    ELSE IF path[1] \notin Media
    THEN [ok |-> FALSE, msg |-> "File is not a valid PDF or is corrupted."]
    ELSE [ok |-> TRUE, msg |-> "Valid PDF"]

\* a broken cleanup: the file stays on the disk
delete_file_keeps(fs, path) == fs

\* pdf_processor.delete_file
delete_file(fs, path) == fs \ {path}

\* what the generative model answers to a generation prompt: a text that is no JSON,
\* a JSON object, a JSON list of items
Unparsable == [kind |-> "text"]
JsonObject == [kind |-> "object"]
JsonList(items) == [kind |-> "list", items |-> items]

\* the answers to the quiz prompt: the list may hold the generated questions, or
\* questions that lack the key the question text is read from
RawQuizzes == { Unparsable, JsonObject, JsonList(Questions), JsonList(<<[correct |-> "A"]>>) }

\* the answers to the flashcard prompt
RawDecks == { Unparsable, JsonObject, JsonList(Deck(2)) }

\* json.loads raises on a text that is no JSON, and the except clause returns []; a
\* value that is not a list, or an empty list, gives []; any other list is returned,
\* cut to its first five items
generate_quiz(raw) ==
    IF raw.kind = "list" /\ Len(raw.items) > 0
    THEN SubSeq(raw.items, 1, IF Len(raw.items) < max_questions THEN Len(raw.items)
                              ELSE max_questions)
    ELSE <<>>

\* the same over cards, cut to the first max_flashcards
generate_flashcards(raw) ==
    IF raw.kind = "list" /\ Len(raw.items) > 0
    THEN SubSeq(raw.items, 1, IF Len(raw.items) < max_flashcards THEN Len(raw.items)
                              ELSE max_flashcards)
    ELSE <<>>

\* what generate_quiz returns: no question after a failed generation, the generated
\* questions, or questions that lack the key the question text is read from
Quizzes == { generate_quiz(raw) : raw \in RawQuizzes }

\* what generate_flashcards returns
Flashcards == { generate_flashcards(raw) : raw \in RawDecks }

\* a segment of a coroutine, from one await to the next: the coroutine as it waits next
\* (None when it returned or raised), the sessions and files it leaves, the messages it
\* sends and the generative-model call it makes
Segment(co, ss, fs, out, llm) ==
    [co |-> co, ss |-> ss, fs |-> fs, out |-> out, llm |-> llm, raised |-> FALSE]

\* the segment ends in an exception that leaves the coroutine
Raised(ss, fs) == [Segment(None, ss, fs, <<>>, None) EXCEPT !.raised = TRUE]
At(co, pc) == Some([co EXCEPT !.pc = pc])

\* the values an awaited call can resume the coroutine with
Outcomes(co) ==
    CASE co.pc = "download" -> Downloads
      [] co.pc \in {"upload", "poll"} -> FileStates
      [] co.pc = "chat_with_memory" -> Replies
      [] co.pc = "generate_quiz" -> RawQuizzes
      [] co.pc = "generate_flashcards" -> RawDecks
      [] OTHER -> {"ok"}

----------------------------------------------------------------------------
(* webhook.py: the background tasks                                        *)

\* whatsapp_service.mark_as_read, send_message, send_interactive_buttons,
\* send_interactive_list and send_reaction scheduled as tasks: one request, no raise
Send(fn, phone, what) == [fn |-> fn, phone |-> phone, pc |-> "start", what |-> what]

send_task(co, ss, fs, d, o) == Segment(None, ss, fs, <<co.what>>, None)

\* a broken turn: the message of the user is not recorded
process_chat_forgets_user(co, ss, fs, d, o) ==
    CASE co.pc = "start" ->
            LET g == get(ss, co.phone)
                history == get_history(g, co.phone)
                language == get_language(g, co.phone)
            IN  Segment(At(co, "chat_with_memory"), g, fs, <<>>,
                        Some([fn |-> "chat_with_memory", message |-> co.text,
                              history |-> LastN(history, context_size),
                              language |-> language]))
      [] co.pc = "chat_with_memory" ->
            LET b == add_message(ss, co.phone, "assistant", o)
            IN  Segment(At(co, "send_message"), b, fs, <<o>>, None)
      [] OTHER ->
            Segment(None, record_activity(ss, co.phone, d), fs, <<>>, None)

\* chat_with_memory puts the last context_size entries of the history in the prompt
\* before its await, and returns the reply of the model or, when the generation
\* raises, a text that says so
process_chat(co, ss, fs, d, o) ==
    CASE co.pc = "start" ->
            LET g == get(ss, co.phone)
                history == get_history(g, co.phone)
                language == get_language(g, co.phone)
            IN  Segment(At(co, "chat_with_memory"), g, fs, <<>>,
                        Some([fn |-> "chat_with_memory", message |-> co.text,
                              history |-> LastN(history, context_size),
                              language |-> language]))
      [] co.pc = "chat_with_memory" ->
            LET a == add_message(ss, co.phone, "user", co.text)
                b == add_message(a, co.phone, "assistant", o)
            IN  Segment(At(co, "send_message"), b, fs, <<o>>, None)
      [] OTHER ->
            Segment(None, record_activity(ss, co.phone, d), fs, <<>>, None)

\* a broken side-flow: the exchange is not recorded
process_url_unrecorded(co, ss, fs, d, o) ==
    CASE co.pc = "start" ->
            LET g == get(ss, co.phone)
            IN  Segment(At(co, "summarize_url"), g, fs, <<>>,
                        Some([fn |-> "summarize_url", url |-> co.url,
                              language |-> get_language(g, co.phone)]))
      [] co.pc = "summarize_url" ->
            Segment(At(co, "send_message"), ss, fs, <<"summary">>, None)
      [] OTHER ->
            Segment(None, record_activity(ss, co.phone, d), fs, <<>>, None)

\* a broken side-flow: the request is recorded before the summary is sent, the summary
\* after
process_url_split(co, ss, fs, d, o) ==
    CASE co.pc = "start" ->
            LET g == get(ss, co.phone)
            IN  Segment(At(co, "summarize_url"), g, fs, <<>>,
                        Some([fn |-> "summarize_url", url |-> co.url,
                              language |-> get_language(g, co.phone)]))
      [] co.pc = "summarize_url" ->
            Segment(At(co, "send_message"),
                    add_message(ss, co.phone, "user", "Summarize: " \o co.url), fs,
                    <<"summary">>, None)
      [] OTHER ->
            LET b == add_message(ss, co.phone, "assistant", "summary")
            IN  Segment(None, record_activity(b, co.phone, d), fs, <<>>, None)

\* summarize_url returns a text whatever happens (its failures are messages too)
process_url(co, ss, fs, d, o) ==
    CASE co.pc = "start" ->
            LET g == get(ss, co.phone)
            IN  Segment(At(co, "summarize_url"), g, fs, <<>>,
                        Some([fn |-> "summarize_url", url |-> co.url,
                              language |-> get_language(g, co.phone)]))
      [] co.pc = "summarize_url" ->
            Segment(At(co, "send_message"), ss, fs, <<"summary">>, None)
      [] OTHER ->
            LET a == add_message(ss, co.phone, "user", "Summarize: " \o co.url)
                b == add_message(a, co.phone, "assistant", "summary")
            IN  Segment(None, record_activity(b, co.phone, d), fs, <<>>, None)

\* process_image and process_audio: the same flow over download_image and analyze_image,
\* download_audio and transcribe_audio; transcribe_audio uploads the file and asks for
\* its state, a second apart, for as long as the state is PROCESSING
process_media(co, ss, fs, d, o) ==
    CASE co.pc = "start" ->
            Segment(At(co, "download"), ss, fs, <<>>, None)
      [] co.pc = "download" /\ o = "raise" ->
            Segment(At(co, "send_error"), ss, fs, <<"error">>, None)
      [] co.pc = "download" /\ o = "none" ->
            Segment(At(co, "send_failed"), ss, fs, <<"could not download">>, None)
      [] co.pc = "download" /\ o = "file" ->
            LET path == Path(co.media_id, co.extension)
                g == get(ss, co.phone)
                first == IF co.model = "transcribe_audio" THEN "upload" ELSE "generate"
            IN  Segment(Some([co EXCEPT !.pc = first, !.filepath = Some(path)]),
                        g, fs \cup {path}, <<>>,
                        Some([fn |-> co.model, filepath |-> path,
                              language |-> get_language(g, co.phone)]))
      [] co.pc \in {"upload", "poll"} ->
            Segment(At(co, IF o = "PROCESSING" THEN "poll" ELSE "generate"),
                    ss, fs, <<>>, None)
      [] co.pc = "generate" ->
            Segment(At(co, "send_message"), ss, fs, <<"result">>, None)
      [] co.pc = "send_message" ->
            Segment(None, record_activity(ss, co.phone, d),
                    delete_file(fs, co.filepath[1]), <<>>, None)
      [] OTHER ->
            Segment(None, ss,
                    IF co.filepath # None THEN delete_file(fs, co.filepath[1]) ELSE fs,
                    <<>>, None)

\* `if session.doc_text_chunks:` at the head of the three document flows
has_cached_chunks_never(s) == FALSE

has_cached_chunks(s) == Truthy(s.doc_text_chunks)

orchestrate_document_processing(co, ss, fs, d, o) ==
    CASE co.pc = "start" ->
            LET g == get(ss, co.phone)
                session == g[co.phone]
            IN  IF has_cached_chunks(session)
                THEN Segment(At(co, "generate"), g, fs, <<>>,
                             Some([fn |-> "process_document_pipeline",
                                   chunks |-> session.doc_text_chunks[1],
                                   task_type |-> co.task_type,
                                   language |-> get_language(g, co.phone)]))
                ELSE Segment(Some([co EXCEPT !.pc = "download",
                                             !.media_id = session.media_id]),
                             g, fs, <<>>, None)
      [] co.pc = "download" /\ o = "raise" ->
            Segment(At(co, "send_error"), ss, fs, <<"error">>, None)
      [] co.pc = "download" /\ (o = "none" \/ co.media_id = None) ->
            Segment(At(co, "send_failed"), ss, fs, <<"could not download">>, None)
      [] co.pc = "download" /\ o = "file" /\ co.media_id # None ->
            LET path == Path(co.media_id[1], "pdf")
                written == fs \cup {path}
                here == Some([co EXCEPT !.pc = "send_failed", !.filepath = Some(path)])
                valid == validate_pdf(written, path)
                chunks == extract_and_chunk_text(co.media_id[1])
                stored == store_chunks(ss, co.phone, chunks)
            IN  IF ~valid.ok
                THEN Segment(here, ss, written, <<valid.msg>>, None)
                ELSE IF chunks = <<>>
                THEN Segment(here, ss, written, <<"could not extract">>, None)
                ELSE Segment(Some([co EXCEPT !.pc = "generate", !.filepath = Some(path)]),
                             stored, written, <<>>,
                             Some([fn |-> "process_document_pipeline",
                                   chunks |-> chunks,
                                   task_type |-> co.task_type,
                                   language |-> get_language(stored, co.phone)]))
      [] co.pc = "generate" ->
            Segment(At(co, "send_message"), ss, fs, <<"result">>, None)
      [] co.pc = "send_message" ->
            Segment(None, record_activity(ss, co.phone, d),
                    IF co.filepath # None THEN delete_file(fs, co.filepath[1]) ELSE fs,
                    <<>>, None)
      [] OTHER ->
            Segment(None, ss,
                    IF co.filepath # None THEN delete_file(fs, co.filepath[1]) ELSE fs,
                    <<>>, None)

\* send_quiz_question: nothing without a current question, a KeyError on a question
\* without text, else the question with its answer buttons
send_quiz_question(ss, phone) ==
    LET q == get_current_question(ss, phone)
    IN  IF q = None THEN [raised |-> FALSE, out |-> <<>>]
        ELSE IF "question" \notin DOMAIN q[1] THEN [raised |-> TRUE, out |-> <<>>]
        ELSE [raised |-> FALSE, out |-> <<"question">>]

\* a broken flow: returns in silence when the download fails
orchestrate_quiz_silent_failure(co, ss, fs, d, o) ==
    CASE co.pc = "start" ->
            LET g == get(ss, co.phone)
                session == g[co.phone]
            IN  IF ~has_cached_chunks(session)
                THEN Segment(Some([co EXCEPT !.pc = "download",
                                             !.media_id = session.media_id]),
                             g, fs, <<>>, None)
                ELSE Segment(At(co, "generate_quiz"), g, fs, <<>>,
                             Some([fn |-> "generate_quiz",
                                   chunks |-> session.doc_text_chunks[1],
                                   task_type |-> "quiz",
                                   language |-> get_language(g, co.phone)]))
      [] co.pc = "download" /\ o = "raise" ->
            Segment(At(co, "send_error"), ss, fs, <<"error">>, None)
      [] co.pc = "download" /\ (o = "none" \/ co.media_id = None) ->
            Segment(None, ss, fs, <<>>, None)
      [] co.pc = "download" /\ o = "file" /\ co.media_id # None ->
            LET path == Path(co.media_id[1], "pdf")
                chunks == extract_and_chunk_text(co.media_id[1])
                stored == store_chunks(ss, co.phone, chunks)
            IN  Segment(At(co, "generate_quiz"), stored, delete_file(fs \cup {path}, path),
                        <<>>,
                        Some([fn |-> "generate_quiz",
                              chunks |-> stored[co.phone].doc_text_chunks[1],
                              task_type |-> "quiz",
                              language |-> get_language(stored, co.phone)]))
      [] co.pc = "generate_quiz" /\ generate_quiz(o) = <<>> ->
            Segment(At(co, "send_failed"), ss, fs, <<"could not generate">>, None)
      [] co.pc = "generate_quiz" /\ generate_quiz(o) # <<>> ->
            Segment(At(co, "send_intro"), start_quiz(ss, co.phone, generate_quiz(o)), fs,
                    <<"quiz time">>, None)
      [] co.pc = "send_intro" ->
            LET q == send_quiz_question(ss, co.phone)
            IN  IF q.raised THEN Segment(At(co, "send_error"), ss, fs, <<"error">>, None)
                ELSE IF q.out = <<>> THEN Segment(None, ss, fs, <<>>, None)
                ELSE Segment(At(co, "send_question"), ss, fs, q.out, None)
      [] OTHER ->
            Segment(None, ss, fs, <<>>, None)

orchestrate_quiz(co, ss, fs, d, o) ==
    CASE co.pc = "start" ->
            LET g == get(ss, co.phone)
                session == g[co.phone]
            IN  IF ~has_cached_chunks(session)
                THEN Segment(Some([co EXCEPT !.pc = "download",
                                             !.media_id = session.media_id]),
                             g, fs, <<>>, None)
                ELSE Segment(At(co, "generate_quiz"), g, fs, <<>>,
                             Some([fn |-> "generate_quiz",
                                   chunks |-> session.doc_text_chunks[1],
                                   task_type |-> "quiz",
                                   language |-> get_language(g, co.phone)]))
      [] co.pc = "download" /\ o = "raise" ->
            Segment(At(co, "send_error"), ss, fs, <<"error">>, None)
      [] co.pc = "download" /\ (o = "none" \/ co.media_id = None) ->
            Segment(At(co, "send_failed"), ss, fs, <<"could not download">>, None)
      [] co.pc = "download" /\ o = "file" /\ co.media_id # None ->
            LET path == Path(co.media_id[1], "pdf")
                chunks == extract_and_chunk_text(co.media_id[1])
                stored == store_chunks(ss, co.phone, chunks)
            IN  Segment(At(co, "generate_quiz"), stored, delete_file(fs \cup {path}, path),
                        <<>>,
                        Some([fn |-> "generate_quiz",
                              chunks |-> stored[co.phone].doc_text_chunks[1],
                              task_type |-> "quiz",
                              language |-> get_language(stored, co.phone)]))
      [] co.pc = "generate_quiz" /\ generate_quiz(o) = <<>> ->
            Segment(At(co, "send_failed"), ss, fs, <<"could not generate">>, None)
      [] co.pc = "generate_quiz" /\ generate_quiz(o) # <<>> ->
            Segment(At(co, "send_intro"), start_quiz(ss, co.phone, generate_quiz(o)), fs,
                    <<"quiz time">>, None)
      [] co.pc = "send_intro" ->
            LET q == send_quiz_question(ss, co.phone)
            IN  IF q.raised THEN Segment(At(co, "send_error"), ss, fs, <<"error">>, None)
                ELSE IF q.out = <<>> THEN Segment(None, ss, fs, <<>>, None)
                ELSE Segment(At(co, "send_question"), ss, fs, q.out, None)
      [] OTHER ->
            Segment(None, ss, fs, <<>>, None)

\* send_flashcard: nothing without a current card, a KeyError on a card without front,
\* else the front of the card with its reveal button
send_flashcard(ss, phone) ==
    LET card == get_current_flashcard(ss, phone)
    IN  IF card = None THEN [raised |-> FALSE, out |-> <<>>]
        ELSE IF "front" \notin DOMAIN card[1] THEN [raised |-> TRUE, out |-> <<>>]
        ELSE [raised |-> FALSE, out |-> <<"card">>]

orchestrate_flashcards(co, ss, fs, d, o) ==
    CASE co.pc = "start" ->
            LET g == get(ss, co.phone)
                session == g[co.phone]
            IN  IF ~has_cached_chunks(session)
                THEN Segment(Some([co EXCEPT !.pc = "download",
                                             !.media_id = session.media_id]),
                             g, fs, <<>>, None)
                ELSE Segment(At(co, "generate_flashcards"), g, fs, <<>>,
                             Some([fn |-> "generate_flashcards",
                                   chunks |-> session.doc_text_chunks[1],
                                   task_type |-> "flashcard",
                                   language |-> get_language(g, co.phone)]))
      [] co.pc = "download" /\ o = "raise" ->
            Segment(At(co, "send_error"), ss, fs, <<"error">>, None)
      [] co.pc = "download" /\ (o = "none" \/ co.media_id = None) ->
            Segment(At(co, "send_failed"), ss, fs, <<"could not download">>, None)
      [] co.pc = "download" /\ o = "file" /\ co.media_id # None ->
            LET path == Path(co.media_id[1], "pdf")
                chunks == extract_and_chunk_text(co.media_id[1])
                stored == store_chunks(ss, co.phone, chunks)
            IN  Segment(At(co, "generate_flashcards"), stored,
                        delete_file(fs \cup {path}, path), <<>>,
                        Some([fn |-> "generate_flashcards",
                              chunks |-> stored[co.phone].doc_text_chunks[1],
                              task_type |-> "flashcard",
                              language |-> get_language(stored, co.phone)]))
      [] co.pc = "generate_flashcards" /\ generate_flashcards(o) = <<>> ->
            Segment(At(co, "send_failed"), ss, fs, <<"could not generate">>, None)
      [] co.pc = "generate_flashcards" /\ generate_flashcards(o) # <<>> ->
            Segment(At(co, "send_intro"), start_flashcards(ss, co.phone, generate_flashcards(o)), fs,
                    <<"flashcard mode">>, None)
      [] co.pc = "send_intro" ->
            LET c == send_flashcard(ss, co.phone)
            IN  IF c.raised THEN Segment(At(co, "send_error"), ss, fs, <<"error">>, None)
                ELSE IF c.out = <<>> THEN Segment(None, ss, fs, <<>>, None)
                ELSE Segment(At(co, "send_card"), ss, fs, c.out, None)
      [] OTHER ->
            Segment(None, ss, fs, <<>>, None)

send_more_options(co, ss, fs, d, o) ==
    CASE co.pc = "start" ->
            LET g == get(ss, co.phone)
            IN  IF g[co.phone].media_id = None
                THEN Segment(None, g, fs, <<>>, None)
                ELSE Segment(At(co, "sleep"), g, fs, <<>>, None)
      [] co.pc = "sleep" ->
            Segment(At(co, "send"), ss, fs, <<"more options">>, None)
      [] OTHER ->
            Segment(None, ss, fs, <<>>, None)

----------------------------------------------------------------------------
(* webhook.py: the handlers that await inside the request                  *)

\* get_quiz_results: (score, total, percentage)
get_quiz_results(ss, phone) ==
    LET s == session_of(ss, phone)
        total == Len(s.quiz_questions)
    IN  [score |-> s.quiz_score, total |-> total,
         pct |-> IF total > 0 THEN Round(s.quiz_score * 100, total) ELSE 0]

handle_quiz_answer(co, ss, fs, d, o) ==
    CASE co.pc = "start" ->
            LET r == answer_quiz(ss, co.phone, co.answer)
            IN  Segment(Some([co EXCEPT !.pc = "send_feedback", !.ret = r.ret]),
                        r.ss, fs, <<"feedback">>, None)
      [] co.pc = "send_feedback" /\ co.ret.is_last ->
            Segment(At(co, "send_result"), ss, fs,
                    <<get_quiz_results(ss, co.phone)>>, None)
      [] co.pc = "send_feedback" /\ ~co.ret.is_last ->
            Segment(At(co, "sleep"), ss, fs, <<>>, None)
      [] co.pc = "send_result" ->
            Segment(At(co, "send_streak"), record_activity(ss, co.phone, d), fs,
                    <<"streak">>, None)
      [] co.pc = "sleep" ->
            LET q == send_quiz_question(ss, co.phone)
            IN  IF q.raised THEN Raised(ss, fs)
                ELSE IF q.out = <<>> THEN Segment(None, ss, fs, <<>>, None)
                ELSE Segment(At(co, "send_question"), ss, fs, q.out, None)
      [] OTHER ->
            Segment(None, ss, fs, <<>>, None)

handle_flash_reveal(co, ss, fs, d, o) ==
    CASE co.pc = "start" ->
            LET card == get_current_flashcard(ss, co.phone)
                g == get(ss, co.phone)
            IN  IF card = None THEN Segment(None, g, fs, <<>>, None)
                ELSE IF "back" \notin DOMAIN card[1]
                THEN Raised(reveal_flashcard(ss, co.phone), fs)
                ELSE Segment(At(co, "send_answer"), reveal_flashcard(ss, co.phone), fs,
                             <<"answer">>, None)
      [] co.pc = "send_answer" ->
            LET session == session_of(ss, co.phone)
                has_more == session.flash_index < Len(session.flashcards) - 1
            IN  IF has_more
                THEN Segment(At(co, "send_next"), ss, fs, <<"next card?">>, None)
                ELSE Segment(At(co, "send_complete"), next_flashcard(ss, co.phone).ss, fs,
                             <<"complete">>, None)
      [] co.pc = "send_complete" ->
            Segment(At(co, "send_streak"), record_activity(ss, co.phone, d), fs,
                    <<"streak">>, None)
      [] OTHER ->
            Segment(None, ss, fs, <<>>, None)

handle_flash_next(co, ss, fs, d, o) ==
    CASE co.pc = "start" ->
            LET n == next_flashcard(ss, co.phone)
                c == send_flashcard(n.ss, co.phone)
            IN  IF c.raised THEN Raised(n.ss, fs)
                ELSE IF c.out = <<>> THEN Segment(None, n.ss, fs, <<>>, None)
                ELSE Segment(At(co, "send_card"), n.ss, fs, c.out, None)
      [] OTHER ->
            Segment(None, ss, fs, <<>>, None)

\* one segment of the coroutine co, resumed with o
Run(co, ss, fs, d, o) ==
    CASE co.fn = "process_chat" -> process_chat(co, ss, fs, d, o)
      [] co.fn = "process_url" -> process_url(co, ss, fs, d, o)
      [] co.fn \in {"process_image", "process_audio"} -> process_media(co, ss, fs, d, o)
      [] co.fn = "orchestrate_document_processing" ->
            orchestrate_document_processing(co, ss, fs, d, o)
      [] co.fn = "orchestrate_quiz" -> orchestrate_quiz(co, ss, fs, d, o)
      [] co.fn = "orchestrate_flashcards" -> orchestrate_flashcards(co, ss, fs, d, o)
      [] co.fn = "send_more_options" -> send_more_options(co, ss, fs, d, o)
      [] co.fn = "handle_quiz_answer" -> handle_quiz_answer(co, ss, fs, d, o)
      [] co.fn = "handle_flash_reveal" -> handle_flash_reveal(co, ss, fs, d, o)
      [] co.fn = "handle_flash_next" -> handle_flash_next(co, ss, fs, d, o)
      [] OTHER -> send_task(co, ss, fs, d, o)

----------------------------------------------------------------------------
(* webhook.py: the request handler                                         *)

\* str.strip().lower() on the bodies the model uses
StripLower(text) ==
    CASE text = " Help " -> "help"
      [] text = "STREAK" -> "streak"
      [] text = "Read https://x.y now" -> "read https://x.y now"
      [] text = "See https://a.b and https://c.d" -> "see https://a.b and https://c.d"
      [] text = "HI" -> "hi"
      [] text = "Help https://x.y" -> "help https://x.y"
      [] OTHER -> text

\* URL_PATTERN.findall on the bodies the model uses
findall(text) ==
    CASE text = "Read https://x.y now" -> <<"https://x.y">>
      [] text = "See https://a.b and https://c.d" -> <<"https://a.b", "https://c.d">>
      [] text = "Help https://x.y" -> <<"https://x.y">>
      [] OTHER -> <<>>

\* "pdf" in mime_type.lower()
is_pdf(mime_type) == mime_type \in {"application/pdf", "application/PDF"}

\* lang_map.get(list_id)
lang_map(list_id) ==
    CASE list_id \in {"lang_french", "langpref_french"} -> Some("French")
      [] list_id \in {"lang_hindi", "langpref_hindi"} -> Some("Hindi")
      [] list_id \in {"lang_english", "langpref_english"} -> Some("English")
      [] OTHER -> None

\* task_map.get(button_id)
task_map(button_id) ==
    CASE button_id = "task_summarize" -> Some("summarize")
      [] button_id = "task_exam" -> Some("exam")
      [] button_id = "task_resume" -> Some("resume")
      [] button_id = "task_quiz" -> Some("quiz")
      [] button_id = "task_flashcard" -> Some("flashcard")
      [] OTHER -> None

\* button_id.replace("quiz_", "").upper() on the quiz buttons
quiz_letter(button_id) ==
    CASE button_id = "quiz_a" -> "A"
      [] button_id = "quiz_b" -> "B"
      [] OTHER -> "C"

\* list_id.startswith("langpref_")
is_langpref(list_id) == list_id \in {"langpref_french", "langpref_hindi", "langpref_english"}

\* what a handler leaves: the singletons, the tasks it added to background_tasks, the
\* coroutine the request still awaits (None when the handler returned or raised)
\* and what that coroutine has sent so far
Handled(ss, tr, st, bg, h) ==
    [ss |-> ss, tracker |-> tr, store |-> st, bg |-> bg, h |-> h, out |-> <<>>,
     raised |-> FALSE]

\* the handler raised: the except clause of handle_whatsapp_webhook logs the exception
Failed(ss, tr, st) == [Handled(ss, tr, st, <<>>, None) EXCEPT !.raised = TRUE]

\* a broken handler: the document is stored before the gates
handle_document_stores_first(e, ss, tr, st, d, t) ==
    LET r == rate_is_allowed(st, e.from, t)
        stored == store_document(ss, e.from, e.id, e.filename)
    IN  IF ~is_pdf(DictGet(e, "mime_type", ""))
        THEN Handled(stored, tr, st, <<Send("send_message", e.from, "only PDF")>>, None)
        ELSE IF ~r.ret
        THEN Handled(stored, tr, r.store,
                     <<Send("send_message", e.from, "rate limit")>>, None)
        ELSE Handled(stored, tr, r.store,
                     <<Send("send_interactive_list", e.from, "choose language")>>, None)

handle_document(e, ss, tr, st, d, t) ==
    LET r == rate_is_allowed(st, e.from, t)
    IN  IF ~is_pdf(DictGet(e, "mime_type", ""))
        THEN Handled(ss, tr, st, <<Send("send_message", e.from, "only PDF")>>, None)
        ELSE IF ~r.ret
        THEN Handled(ss, tr, r.store, <<Send("send_message", e.from, "rate limit")>>, None)
        ELSE Handled(store_document(ss, e.from, e.id, e.filename), tr, r.store,
                     <<Send("send_interactive_list", e.from, "choose language")>>, None)

handle_image(e, ss, tr, st, d, t) ==
    Handled(ss, tr, st,
            << Send("send_message", e.from, "got your image"),
               [fn |-> "process_image", phone |-> e.from, pc |-> "start",
                media_id |-> e.id, extension |-> "jpg", model |-> "analyze_image",
                filepath |-> None] >>, None)

handle_audio(e, ss, tr, st, d, t) ==
    Handled(ss, tr, st,
            << Send("send_message", e.from, "got your voice note"),
               [fn |-> "process_audio", phone |-> e.from, pc |-> "start",
                media_id |-> e.id, extension |-> "ogg", model |-> "transcribe_audio",
                filepath |-> None] >>, None)

\* a broken handler: links are not looked for
handle_text_no_links(e, ss, tr, st, d, t) ==
    LET text == e.body
        text_lower == StripLower(text)
        urls == findall(text)
        say(what) == <<Send("send_message", e.from, what)>>
    IN  CASE text_lower \in {"hi", "hello", "hey", "start"} ->
                Handled(ss, tr, st,
                        say("hey there") \o
                        <<Send("send_interactive_buttons", e.from, "what to do")>>, None)
          [] text_lower \in {"help", "/help", "?"} ->
                Handled(ss, tr, st, say("help"), None)
          [] text_lower \in {"streak", "/streak"} ->
                Handled(get(ss, e.from), tr, st, say("streak"), None)
          [] text_lower \in {"usage", "stats", "/usage"} ->
                Handled(ss, get_usage_stats(tr, d).tracker, st,
                        say("usage"), None)
          [] text_lower \in {"clear", "reset", "/clear"} ->
                Handled(clear_history(ss, e.from), tr, st, say("memory cleared"), None)
          [] text_lower \in {"menu", "/menu"} ->
                Handled(ss, tr, st, say("menu"), None)
          [] text_lower \in {"lang", "language", "/lang"} ->
                Handled(ss, tr, st,
                        <<Send("send_interactive_list", e.from, "choose language")>>, None)
          [] OTHER ->
                Handled(ss, tr, st,
                        <<[fn |-> "process_chat", phone |-> e.from, pc |-> "start",
                           text |-> text]>>, None)

handle_text(e, ss, tr, st, d, t) ==
    LET text == e.body
        text_lower == StripLower(text)
        urls == findall(text)
        say(what) == <<Send("send_message", e.from, what)>>
    IN  CASE text_lower \in {"hi", "hello", "hey", "start"} ->
                Handled(ss, tr, st,
                        say("hey there") \o
                        <<Send("send_interactive_buttons", e.from, "what to do")>>, None)
          [] text_lower \in {"help", "/help", "?"} ->
                Handled(ss, tr, st, say("help"), None)
          [] text_lower \in {"streak", "/streak"} ->
                Handled(get(ss, e.from), tr, st, say("streak"), None)
          [] text_lower \in {"usage", "stats", "/usage"} ->
                Handled(ss, get_usage_stats(tr, d).tracker, st,
                        say("usage"), None)
          [] text_lower \in {"clear", "reset", "/clear"} ->
                Handled(clear_history(ss, e.from), tr, st, say("memory cleared"), None)
          [] text_lower \in {"menu", "/menu"} ->
                Handled(ss, tr, st, say("menu"), None)
          [] text_lower \in {"lang", "language", "/lang"} ->
                Handled(ss, tr, st,
                        <<Send("send_interactive_list", e.from, "choose language")>>, None)
          [] urls # <<>> ->
                Handled(ss, tr, st,
                        say("detected a link") \o
                        <<[fn |-> "process_url", phone |-> e.from, pc |-> "start",
                           url |-> urls[1], text |-> text]>>, None)
          [] OTHER ->
                Handled(ss, tr, st,
                        <<[fn |-> "process_chat", phone |-> e.from, pc |-> "start",
                           text |-> text]>>, None)

\* a message whose text names session.filename
Named(task, filename) == task @@ [about |-> filename]

\* the buttons follow every lang_* selection, whether or not the session has a document
handle_list_reply(e, ss, tr, st, d, t) ==
    LET language == lang_map(e.id)
        set == set_language(ss, e.from, language[1])
    IN  IF language = None THEN Handled(ss, tr, st, <<>>, None)
        ELSE IF is_langpref(e.id)
        THEN Handled(set, tr, st, <<Send("send_message", e.from, "language set")>>, None)
        ELSE Handled(set, tr, st,
                     <<Named(Send("send_interactive_buttons", e.from, "what should I do"),
                             session_of(set, e.from).filename)>>, None)

\* the handlers awaited inside the request run up to their first await at once
Awaited(co, ss, tr, st, d) ==
    LET r == Run(co, ss, {}, d, "ok")
    IN  [Handled(r.ss, tr, st, <<>>, r.co) EXCEPT !.out = r.out, !.raised = r.raised]

\* a broken handler: the notice is enqueued after the result task
handle_button_reply_notice_late(e, ss, tr, st, d, t) ==
    LET button_id == e.id
        task_type == task_map(button_id)
        say(what) == <<Send("send_message", e.from, what)>>
        session == session_of(ss, e.from)
        task == CASE task_type = Some("quiz") ->
                        [fn |-> "orchestrate_quiz", phone |-> e.from, pc |-> "start",
                         media_id |-> None]
                  [] task_type = Some("flashcard") ->
                        [fn |-> "orchestrate_flashcards", phone |-> e.from,
                         pc |-> "start", media_id |-> None]
                  [] OTHER ->
                        [fn |-> "orchestrate_document_processing", phone |-> e.from,
                         pc |-> "start", task_type |-> task_type[1],
                         media_id |-> None, filepath |-> None]
    IN  CASE button_id = "btn_features" -> Handled(ss, tr, st, say("features"), None)
          [] button_id = "btn_help" -> Handled(ss, tr, st, say("help"), None)
          [] button_id = "btn_menu" -> Handled(ss, tr, st, say("menu"), None)
          [] button_id \in {"quiz_a", "quiz_b", "quiz_c"} ->
                Awaited([fn |-> "handle_quiz_answer", phone |-> e.from, pc |-> "start",
                         answer |-> quiz_letter(button_id), ret |-> None],
                        ss, tr, st, d)
          [] button_id = "flash_reveal" ->
                Awaited([fn |-> "handle_flash_reveal", phone |-> e.from, pc |-> "start"],
                        ss, tr, st, d)
          [] button_id = "flash_next" ->
                Awaited([fn |-> "handle_flash_next", phone |-> e.from, pc |-> "start"],
                        ss, tr, st, d)
          [] task_type = None -> Handled(ss, tr, st, <<>>, None)
          [] session.media_id = None ->
                Handled(get(ss, e.from), tr, st, say("no active document"), None)
          [] OTHER ->
                Handled(get(ss, e.from), tr, st,
                        <<task>> \o say("processing") \o
                        <<[fn |-> "send_more_options", phone |-> e.from,
                           pc |-> "start"]>>, None)

\* a broken handler: the session is not asked for its document
handle_button_reply_without_document(e, ss, tr, st, d, t) ==
    LET button_id == e.id
        task_type == task_map(button_id)
        say(what) == <<Send("send_message", e.from, what)>>
        session == session_of(ss, e.from)
        task == CASE task_type = Some("quiz") ->
                        [fn |-> "orchestrate_quiz", phone |-> e.from, pc |-> "start",
                         media_id |-> None]
                  [] task_type = Some("flashcard") ->
                        [fn |-> "orchestrate_flashcards", phone |-> e.from,
                         pc |-> "start", media_id |-> None]
                  [] OTHER ->
                        [fn |-> "orchestrate_document_processing", phone |-> e.from,
                         pc |-> "start", task_type |-> task_type[1],
                         media_id |-> None, filepath |-> None]
    IN  CASE button_id = "btn_features" -> Handled(ss, tr, st, say("features"), None)
          [] button_id = "btn_help" -> Handled(ss, tr, st, say("help"), None)
          [] button_id = "btn_menu" -> Handled(ss, tr, st, say("menu"), None)
          [] button_id \in {"quiz_a", "quiz_b", "quiz_c"} ->
                Awaited([fn |-> "handle_quiz_answer", phone |-> e.from, pc |-> "start",
                         answer |-> quiz_letter(button_id), ret |-> None],
                        ss, tr, st, d)
          [] button_id = "flash_reveal" ->
                Awaited([fn |-> "handle_flash_reveal", phone |-> e.from, pc |-> "start"],
                        ss, tr, st, d)
          [] button_id = "flash_next" ->
                Awaited([fn |-> "handle_flash_next", phone |-> e.from, pc |-> "start"],
                        ss, tr, st, d)
          [] task_type = None -> Handled(ss, tr, st, <<>>, None)
          [] OTHER ->
                Handled(get(ss, e.from), tr, st,
                        say("processing") \o
                        <<task, [fn |-> "send_more_options", phone |-> e.from,
                                 pc |-> "start"]>>, None)

handle_button_reply(e, ss, tr, st, d, t) ==
    LET button_id == e.id
        task_type == task_map(button_id)
        say(what) == <<Send("send_message", e.from, what)>>
        session == session_of(ss, e.from)
        task == CASE task_type = Some("quiz") ->
                        [fn |-> "orchestrate_quiz", phone |-> e.from, pc |-> "start",
                         media_id |-> None]
                  [] task_type = Some("flashcard") ->
                        [fn |-> "orchestrate_flashcards", phone |-> e.from,
                         pc |-> "start", media_id |-> None]
                  [] OTHER ->
                        [fn |-> "orchestrate_document_processing", phone |-> e.from,
                         pc |-> "start", task_type |-> task_type[1],
                         media_id |-> None, filepath |-> None]
    IN  CASE button_id = "btn_features" -> Handled(ss, tr, st, say("features"), None)
          [] button_id = "btn_help" -> Handled(ss, tr, st, say("help"), None)
          [] button_id = "btn_menu" -> Handled(ss, tr, st, say("menu"), None)
          [] button_id \in {"quiz_a", "quiz_b", "quiz_c"} ->
                Awaited([fn |-> "handle_quiz_answer", phone |-> e.from, pc |-> "start",
                         answer |-> quiz_letter(button_id), ret |-> None],
                        ss, tr, st, d)
          [] button_id = "flash_reveal" ->
                Awaited([fn |-> "handle_flash_reveal", phone |-> e.from, pc |-> "start"],
                        ss, tr, st, d)
          [] button_id = "flash_next" ->
                Awaited([fn |-> "handle_flash_next", phone |-> e.from, pc |-> "start"],
                        ss, tr, st, d)
          [] task_type = None -> Handled(ss, tr, st, <<>>, None)
          [] session.media_id = None ->
                Handled(get(ss, e.from), tr, st, say("no active document"), None)
          [] OTHER ->
                Handled(get(ss, e.from), tr, st,
                        say("processing") \o
                        <<task, [fn |-> "send_more_options", phone |-> e.from,
                                 pc |-> "start"]>>, None)

\* interactive["button_reply"]["id"] and interactive["list_reply"]["id"] raise KeyError
\* on a reply without its payload; a message without "interactive" has no reply type
handle_interactive(e, ss, tr, st, d, t) ==
    LET reply_type == DictGet(e, "reply_type", "")
    IN  CASE reply_type \in {"button_reply", "list_reply"} /\ "id" \notin DOMAIN e ->
                Failed(ss, tr, st)
          [] reply_type = "button_reply" -> handle_button_reply(e, ss, tr, st, d, t)
          [] reply_type = "list_reply" -> handle_list_reply(e, ss, tr, st, d, t)
          [] OTHER -> Handled(ss, tr, st, <<>>, None)

\* a body that carries no message: a delivery status, or a body on which
\* body.get("entry", [])[0], entry.get("changes", [])[0] or value["messages"][0] raises
NoMessage(e) == e.type \in {"status", "no_entry", "no_changes", "no_messages"}

\* the gate denied the sender: the limit message is scheduled and the request returns
\* (marked: the tasks scheduled before the gate)
\* a broken denial: the sender is welcomed all the same
denied_welcomes(e, ss, tr, st, marked) ==
    Handled(is_first_visit(ss, e.from).ss, tr, st,
            marked \o << Send("send_message", e.from, "limit reached"),
                         Send("send_message", e.from, "welcome") >>, None)

denied(e, ss, tr, st, marked) ==
    Handled(ss, tr, st, marked \o <<Send("send_message", e.from, "limit reached")>>, None)

\* a broken dispatcher: the first text of a user is welcomed and routed like any other
handle_whatsapp_webhook_routes_first_text(e, ss, tr, st, d, t) ==
    IF e.type = "status"
    THEN [gate |-> None, first |-> None, before |-> <<>>] @@ Handled(ss, tr, st, <<>>, None)
    ELSE IF NoMessage(e)
    THEN [gate |-> None, first |-> None, before |-> <<>>] @@ Failed(ss, tr, st)
    ELSE
    LET marked == <<Send("mark_as_read", e.from, "read")>>
        g == tracker_is_allowed(tr, e.from, d)
        v == is_first_visit(ss, e.from)
        welcome == IF v.ret
                   THEN << Send("send_message", e.from, "welcome"),
                           Send("send_interactive_buttons", e.from, "explore") >>
                   ELSE <<>>
        react == <<Send("send_reaction", e.from, e.type)>>
        routed ==
            CASE e.type = "document" ->
                    [handle_document(e, v.ss, g.tracker, st, d, t)
                        EXCEPT !.bg = marked \o welcome \o react \o @]
              [] e.type = "image" ->
                    [handle_image(e, v.ss, g.tracker, st, d, t)
                        EXCEPT !.bg = marked \o welcome \o react \o @]
              [] e.type = "audio" ->
                    [handle_audio(e, v.ss, g.tracker, st, d, t)
                        EXCEPT !.bg = marked \o welcome \o react \o @]
              [] e.type = "interactive" ->
                    [handle_interactive(e, v.ss, g.tracker, st, d, t)
                        EXCEPT !.bg = marked \o welcome \o @]
              [] e.type = "text" ->
                    [handle_text(e, v.ss, g.tracker, st, d, t)
                        EXCEPT !.bg = marked \o welcome \o react \o @]
              [] OTHER -> Handled(v.ss, g.tracker, st, marked \o welcome, None)
    IN  IF ~g.ret
        THEN [gate |-> Some(FALSE), first |-> None, before |-> marked]
             @@ denied(e, ss, g.tracker, st, marked)
        ELSE [gate |-> Some(TRUE), first |-> Some(v.ret), before |-> marked] @@ routed

\* handle_whatsapp_webhook after `await request.json()`, up to the first await of the
\* handler it routes to.  gate and first are what is_allowed and is_first_visit returned
\* (None when not called), before the tasks scheduled ahead of the gate
handle_whatsapp_webhook(e, ss, tr, st, d, t) ==
    IF e.type = "status"
    THEN [gate |-> None, first |-> None, before |-> <<>>] @@ Handled(ss, tr, st, <<>>, None)
    ELSE IF NoMessage(e)
    THEN [gate |-> None, first |-> None, before |-> <<>>] @@ Failed(ss, tr, st)
    ELSE
    LET marked == <<Send("mark_as_read", e.from, "read")>>
        g == tracker_is_allowed(tr, e.from, d)
        v == is_first_visit(ss, e.from)
        welcome == IF v.ret
                   THEN << Send("send_message", e.from, "welcome"),
                           Send("send_interactive_buttons", e.from, "explore") >>
                   ELSE <<>>
        react == <<Send("send_reaction", e.from, e.type)>>
        routed ==
            CASE e.type = "document" ->
                    [handle_document(e, v.ss, g.tracker, st, d, t)
                        EXCEPT !.bg = marked \o welcome \o react \o @]
              [] e.type = "image" ->
                    [handle_image(e, v.ss, g.tracker, st, d, t)
                        EXCEPT !.bg = marked \o welcome \o react \o @]
              [] e.type = "audio" ->
                    [handle_audio(e, v.ss, g.tracker, st, d, t)
                        EXCEPT !.bg = marked \o welcome \o react \o @]
              [] e.type = "interactive" ->
                    [handle_interactive(e, v.ss, g.tracker, st, d, t)
                        EXCEPT !.bg = marked \o welcome \o @]
              [] e.type = "text" ->
                    [handle_text(e, v.ss, g.tracker, st, d, t)
                        EXCEPT !.bg = marked \o welcome \o react \o @]
              [] OTHER -> Handled(v.ss, g.tracker, st, marked \o welcome, None)
    IN  IF ~g.ret
        THEN [gate |-> Some(FALSE), first |-> None, before |-> marked]
             @@ denied(e, ss, g.tracker, st, marked)
        ELSE IF v.ret /\ e.type = "text"
        THEN [gate |-> Some(TRUE), first |-> Some(TRUE), before |-> marked]
             @@ Handled(v.ss, g.tracker, st, marked \o welcome, None)
        ELSE [gate |-> Some(TRUE), first |-> Some(v.ret), before |-> marked] @@ routed

\* the inbound events: a delivery status (no message), and messages by type
Status == [type |-> "status"]
Text(p, body) == [type |-> "text", from |-> p, body |-> body]
Document(p, m, mime_type) ==
    [type |-> "document", from |-> p, id |-> m, filename |-> Filename(m),
     mime_type |-> mime_type]
Image(p, m) == [type |-> "image", from |-> p, id |-> m]
Audio(p, m) == [type |-> "audio", from |-> p, id |-> m]
Button(p, id) == [type |-> "interactive", from |-> p, reply_type |-> "button_reply", id |-> id]
List(p, id) == [type |-> "interactive", from |-> p, reply_type |-> "list_reply", id |-> id]
Other(p, type) == [type |-> type, from |-> p]
\* bodies without entry, without changes, with an empty list of messages
Broken == { [type |-> t] : t \in {"no_entry", "no_changes", "no_messages"} }
\* messages without the payload of their type
Bare(p, type) == [type |-> type, from |-> p]
BareReply(p, reply_type) == [type |-> "interactive", from |-> p, reply_type |-> reply_type]

----------------------------------------------------------------------------
(* The state after the module singletons are constructed                   *)

NoCall == [op |-> "none"]

Init ==
    /\ sessions = <<>>
    /\ today = 0
    /\ now = 0
    /\ tracker = ConversationTracker(MonthlyLimit, 0)
    /\ store = <<>>
    /\ call = NoCall
    /\ appended = [p \in Phones |-> <<>>]
    /\ rl_window = [p \in Phones |-> None]
    /\ obs = [ ops       |-> 0,
               advances  |-> [p \in Phones |-> 0],
               shown     |-> [p \in Phones |-> FALSE],
               events    |-> 0,
               visits    |-> [p \in Phones |-> 0],
               welcomes  |-> [p \in Phones |-> 0],
               admitted  |-> {},
               cache_doc |-> [p \in Phones |-> None],
               answered  |-> [p \in Phones |-> 0],
               matched   |-> [p \in Phones |-> 0] ]
    /\ procs = <<>>
    /\ files = {}

----------------------------------------------------------------------------
(* The clocks                                                              *)

\* midnight passes, once or several times, between two calls
NewDay ==
    /\ \E d \in (today + 1)..MaxDay : today' = d
    /\ UNCHANGED <<sessions, now, tracker, store, call, appended, rl_window, obs, flow>>

Tick ==
    /\ now < MaxTicks * TimeStep
    /\ now' = now + TimeStep
    /\ UNCHANGED <<sessions, today, tracker, store, call, appended, rl_window, obs, flow>>

----------------------------------------------------------------------------
(* Calls on session_manager                                                *)

RecordActivity(p) ==
    /\ session_of(sessions, p).docs_processed < MaxDocs
    /\ sessions' = record_activity(sessions, p, today)
    /\ call' = [op |-> "record_activity", phone |-> p, at |-> today,
                pre |-> session_of(sessions, p)]
    /\ UNCHANGED <<today, now, tracker, store, appended, rl_window, obs, flow>>

\* observer: the answers given to a current question of a running quiz, and those of
\* them that carry the stored letter of that question, whatever the case
Tally(o, s, answer) ==
    IF s.quiz_active /\ s.quiz_index < Len(s.quiz_questions)
    THEN LET q == s.quiz_questions[s.quiz_index + 1]
             letter == IF "correct" \in DOMAIN q THEN q.correct ELSE ""
         IN  [o EXCEPT !.answered[s.phone] = @ + 1,
                       !.matched[s.phone] = IF SameLetter(answer, letter) THEN @ + 1 ELSE @]
    ELSE o

\* a broken start: a generation without questions starts a quiz all the same
StartQuiz_with_nothing(p, questions) ==
    /\ TRUE
    /\ sessions' = start_quiz(sessions, p, questions)
    /\ call' = [op |-> "start_quiz", phone |-> p, arg |-> questions,
                pre |-> session_of(sessions, p)]
    /\ obs' = [obs EXCEPT !.answered[p] = 0, !.matched[p] = 0]
    /\ UNCHANGED <<today, now, tracker, store, appended, rl_window, flow>>

\* orchestrate_quiz starts a quiz with the generated questions unless there are none
StartQuiz(p, questions) ==
    /\ questions # <<>>
    /\ sessions' = start_quiz(sessions, p, questions)
    /\ call' = [op |-> "start_quiz", phone |-> p, arg |-> questions,
                pre |-> session_of(sessions, p)]
    /\ obs' = [obs EXCEPT !.answered[p] = 0, !.matched[p] = 0]
    /\ UNCHANGED <<today, now, tracker, store, appended, rl_window, flow>>

AnswerQuiz(p, answer) ==
    LET r == answer_quiz(sessions, p, answer)
    IN  /\ sessions' = r.ss
        /\ call' = [op |-> "answer_quiz", phone |-> p, arg |-> answer, ret |-> r.ret,
                    pre |-> session_of(sessions, p)]
        /\ obs' = Tally(obs, session_of(sessions, p), answer)
        /\ UNCHANGED <<today, now, tracker, store, appended, rl_window, flow>>

AddMessage(p) ==
    LET e == Entry(Len(appended[p]) + 1)
    IN  /\ Len(appended[p]) < MaxAppends
        /\ sessions' = add_message(sessions, p, e.role, e.content)
        /\ appended' = [appended EXCEPT ![p] = Append(@, e)]
        /\ call' = [op |-> "add_message", phone |-> p, arg |-> e,
                    pre |-> session_of(sessions, p)]
        /\ UNCHANGED <<today, now, tracker, store, rl_window, obs, flow>>

\* orchestrate_flashcards starts a deck with the generated cards unless there are none
\* (observer: the advances made on the deck, and whether its current card was revealed)
StartFlashcards(p, cards) ==
    /\ cards # <<>>
    /\ sessions' = start_flashcards(sessions, p, cards)
    /\ obs' = [obs EXCEPT !.advances[p] = 0, !.shown[p] = FALSE]
    /\ call' = [op |-> "start_flashcards", phone |-> p, arg |-> cards,
                pre |-> session_of(sessions, p)]
    /\ UNCHANGED <<today, now, tracker, store, appended, rl_window, flow>>

RevealFlashcard(p) ==
    /\ sessions' = reveal_flashcard(sessions, p)
    /\ obs' = [obs EXCEPT !.shown[p] = TRUE]
    /\ call' = [op |-> "reveal_flashcard", phone |-> p,
                pre |-> session_of(sessions, p)]
    /\ UNCHANGED <<today, now, tracker, store, appended, rl_window, flow>>

NextFlashcard(p) ==
    LET r == next_flashcard(sessions, p)
    IN  /\ obs.advances[p] < Len(session_of(sessions, p).flashcards) + MaxOverrun
        /\ sessions' = r.ss
        /\ obs' = [obs EXCEPT !.advances[p] = @ + 1, !.shown[p] = FALSE]
        /\ call' = [op |-> "next_flashcard", phone |-> p, ret |-> r.ret,
                    pre |-> session_of(sessions, p)]
        /\ UNCHANGED <<today, now, tracker, store, appended, rl_window, flow>>

\* handle_document stores the uploaded document
StoreDocument(p, m) ==
    /\ sessions' = store_document(sessions, p, m, Filename(m))
    /\ call' = [op |-> "store_document", phone |-> p, arg |-> m,
                pre |-> session_of(sessions, p)]
    /\ UNCHANGED <<today, now, tracker, store, appended, rl_window, obs, flow>>

\* the document flows cache the chunks they extracted from document m
StoreChunks(p, m) ==
    /\ sessions' = store_chunks(sessions, p, extract_and_chunk_text(m))
    /\ call' = [op |-> "store_chunks", phone |-> p, arg |-> m,
                pre |-> session_of(sessions, p)]
    /\ UNCHANGED <<today, now, tracker, store, appended, rl_window, obs, flow>>

----------------------------------------------------------------------------
(* Calls on conversation_tracker                                           *)

TrackerIsAllowed(p) ==
    LET r == tracker_is_allowed(tracker, p, today)
    IN  /\ tracker' = r.tracker
        /\ call' = [op |-> "tracker.is_allowed", phone |-> p, at |-> today,
                    ret |-> r.ret, pre |-> tracker]
        /\ UNCHANGED <<sessions, today, now, store, appended, rl_window, obs, flow>>

GetUsageStats ==
    LET r == get_usage_stats(tracker, today)
    IN  /\ tracker' = r.tracker
        /\ call' = [op |-> "tracker.get_usage_stats", at |-> today,
                    ret |-> r.ret, pre |-> tracker]
        /\ UNCHANGED <<sessions, today, now, store, appended, rl_window, obs, flow>>

----------------------------------------------------------------------------
(* Calls on rate_limiter                                                   *)

\* the observer counts the calls of a window: a window opens with a user's first call
\* and with the first call made more than window_seconds after the running window opened
\* (before: the calls made in the window that ran before this one)
Observe(w, t) ==
    IF w = None
    THEN Some([start |-> t, calls |-> 1, before |-> 0])
    ELSE IF t - w[1].start > window_seconds
    THEN Some([start |-> t, calls |-> 1, before |-> w[1].calls])
    ELSE Some([start |-> w[1].start, calls |-> w[1].calls + 1, before |-> w[1].before])

RateIsAllowed(u) ==
    LET r == rate_is_allowed(store, u, now)
        w == Observe(rl_window[u], now)
    IN  /\ w[1].calls <= MaxWindowCalls
        /\ store' = r.store
        /\ rl_window' = [rl_window EXCEPT ![u] = w]
        /\ call' = [op |-> "rate_limiter.is_allowed", phone |-> u, at |-> now,
                    ret |-> r.ret,
                    pre |-> IF u \in DOMAIN store THEN Some(store[u]) ELSE None]
        /\ UNCHANGED <<sessions, today, now, tracker, appended, obs, flow>>

----------------------------------------------------------------------------
(* SessionManager: every operation                                         *)

\* the operations that only read: each goes through get
Getters ==
    {"get", "get_document", "get_language", "get_history", "get_current_question",
     "get_quiz_results", "get_current_flashcard", "get_streak_message"}

SessionOps ==
    Getters \cup
    {"is_first_visit", "store_document", "store_chunks", "set_language", "add_message",
     "clear_history", "start_quiz", "answer_quiz", "start_flashcards", "reveal_flashcard",
     "next_flashcard", "record_activity"}

\* the sessions after the operation called name, keyed by phone, on day d
Apply(name, ss, phone, d) ==
    CASE name = "is_first_visit" -> is_first_visit(ss, phone).ss
      [] name = "store_document" -> store_document(ss, phone, "m1", Filename("m1"))
      [] name = "store_chunks" -> store_chunks(ss, phone, extract_and_chunk_text("m1"))
      [] name = "set_language" -> set_language(ss, phone, "French")
      [] name = "add_message" -> add_message(ss, phone, "user", "hi")
      [] name = "clear_history" -> clear_history(ss, phone)
      [] name = "start_quiz" -> start_quiz(ss, phone, Questions)
      [] name = "answer_quiz" -> answer_quiz(ss, phone, "A").ss
      [] name = "start_flashcards" -> start_flashcards(ss, phone, Deck(2))
      [] name = "reveal_flashcard" -> reveal_flashcard(ss, phone)
      [] name = "next_flashcard" -> next_flashcard(ss, phone).ss
      [] name = "record_activity" -> record_activity(ss, phone, d)
      [] OTHER -> get(ss, phone)

\* one call of a SessionManager operation (observer: the calls so far)
SessionOp(p, name) ==
    /\ obs.ops < MaxSessionOps
    /\ sessions' = Apply(name, sessions, p, today)
    /\ obs' = [obs EXCEPT !.ops = @ + 1]
    /\ call' = [op |-> "session", name |-> name, phone |-> p, at |-> today,
                pre |-> sessions]
    /\ UNCHANGED <<today, now, tracker, store, appended, rl_window, flow>>

----------------------------------------------------------------------------
(* The event loop                                                          *)

\* observer: the users admitted by the gate on the days of the running month
Admit(admitted, p, d) ==
    {x \in admitted : MonthOf(x[2]) = MonthOf(d) /\ YearOf(x[2]) = YearOf(d)} \cup {<<p, d>>}

\* observer: the tasks among bg that send the welcome message
Welcomes(bg) ==
    Cardinality({i \in DOMAIN bg : bg[i].fn = "send_message" /\ bg[i].what = "welcome"})

\* the document flows
DocumentFlows ==
    {"orchestrate_document_processing", "orchestrate_quiz", "orchestrate_flashcards"}

\* the handlers the request awaits: an exception that leaves one reaches the except
\* clause of handle_whatsapp_webhook, and the tasks of the request run all the same; one
\* that leaves a task ends the tasks of its request
AwaitedHandlers == {"handle_quiz_answer", "handle_flash_reveal", "handle_flash_next"}

\* the whatsapp_service calls scheduled as tasks
Sends ==
    {"mark_as_read", "send_message", "send_interactive_buttons", "send_interactive_list",
     "send_reaction"}

\* a task that only sends is one request to the Graph API: it reads and writes neither
\* the singletons nor the disk, so the queue of an event is followed from the first
\* coroutine that does
RECURSIVE Settle(_)
Settle(todo) ==
    IF todo # <<>> /\ Head(todo).fn \in Sends THEN Settle(Tail(todo)) ELSE todo

\* an inbound event arrives: the request handler runs up to its first await; the handler
\* it still awaits and the tasks it scheduled, which run in order once the request has
\* returned, are the coroutines of the event
Webhook(e) ==
    \E w \in {handle_whatsapp_webhook(e, sessions, tracker, store, today, now)} :
    LET todo == Settle(w.h \o w.bg)
        p == e.from
        quiz == /\ e.type = "interactive" /\ DictGet(e, "reply_type", "") = "button_reply"
                /\ DictGet(e, "id", "") \in {"quiz_a", "quiz_b", "quiz_c"}
        seen == [obs EXCEPT
                    !.events = @ + 1,
                    !.visits[p] = IF w.first # None THEN @ + 1 ELSE @,
                    !.welcomes[p] = @ + Welcomes(w.bg),
                    !.admitted = IF w.gate = Some(TRUE) THEN Admit(@, p, today) ELSE @,
                    !.cache_doc[p] =
                        IF session_of(w.ss, p).doc_text_chunks = None THEN None ELSE @]
    IN  /\ sessions' = w.ss
        /\ tracker' = w.tracker
        /\ store' = w.store
        /\ procs' = IF todo = <<>> THEN procs
                    ELSE Append(procs, [todo |-> todo, sent |-> Len(w.out), dl |-> 0,
                                        hit |-> FALSE])
        /\ obs' = IF NoMessage(e) THEN [obs EXCEPT !.events = @ + 1]
                  ELSE IF quiz /\ w.gate = Some(TRUE)
                  THEN Tally(seen, session_of(sessions, p), quiz_letter(e.id))
                  ELSE seen
        /\ call' = [op |-> "webhook", event |-> e,
                    phone |-> IF NoMessage(e) THEN "" ELSE p,
                    gate |-> w.gate, first |-> w.first, before |-> w.before,
                    bg |-> w.bg, h |-> w.h, raised |-> w.raised, at |-> today, t |-> now,
                    pre |-> [sessions |-> sessions, tracker |-> tracker, store |-> store]]
        /\ UNCHANGED <<today, now, appended, rl_window, files>>

\* the chunks on the session of p were cached by a task on the document of the session
CachedFor(ss, p) ==
    /\ obs.cache_doc[p] # None
    /\ obs.cache_doc[p] = session_of(ss, p).media_id

\* the event loop resumes the coroutine at the head of event i for one segment
\* (observer: the messages the coroutine has sent, the downloads it has started, and
\* whether it started on chunks cached for the document of the session)
Step(i) ==
    LET co == Head(procs[i].todo)
        p == co.phone
    IN  \E o \in Outcomes(co) : \E r \in {Run(co, sessions, files, today, o)} :
        LET sent == procs[i].sent + Len(r.out)
            dl == procs[i].dl + IF r.co # None /\ r.co[1].pc = "download" THEN 1 ELSE 0
            hit == IF co.pc = "start" THEN CachedFor(sessions, p) ELSE procs[i].hit
            todo == IF r.raised /\ co.fn \notin AwaitedHandlers THEN <<>>
                    ELSE Settle(r.co \o Tail(procs[i].todo))
            stored == /\ co.fn \in DocumentFlows /\ co.pc = "download" /\ r.co # None
                      /\ r.co[1].pc \in {"generate", "generate_quiz", "generate_flashcards"}
            started == co.fn = "orchestrate_quiz" /\ co.pc = "generate_quiz"
                       /\ generate_quiz(o) # <<>>
        IN  /\ sessions' = r.ss
            /\ files' = r.fs
            /\ procs' = IF todo = <<>>
                        THEN [j \in 1..(Len(procs) - 1) |->
                                IF j < i THEN procs[j] ELSE procs[j + 1]]
                        ELSE IF r.co = None
                        THEN [procs EXCEPT ![i] = [todo |-> todo, sent |-> 0, dl |-> 0,
                                                   hit |-> FALSE]]
                        ELSE [procs EXCEPT ![i] = [todo |-> todo, sent |-> sent, dl |-> dl,
                                                   hit |-> hit]]
            /\ obs' = [obs EXCEPT
                        !.cache_doc[p] =
                            IF ~stored THEN @
                            ELSE IF r.ss[p].doc_text_chunks = Some(<<>>) THEN None
                            ELSE co.media_id,
                        !.answered[p] = IF started THEN 0 ELSE @,
                        !.matched[p] = IF started THEN 0 ELSE @]
            /\ call' = [op |-> "step", fn |-> co.fn, phone |-> p, pc |-> co.pc, co |-> co,
                        out |-> r.out, llm |-> r.llm, exit |-> (r.co = None),
                        raised |-> r.raised, o |-> o,
                        sent |-> sent, dl |-> dl, hit |-> hit, at |-> today,
                        pre |-> session_of(sessions, p)]
            /\ UNCHANGED <<today, now, tracker, store, appended, rl_window>>

----------------------------------------------------------------------------
(* Specifications: one per component, and the whole                        *)

NextStreak == NewDay \/ \E p \in Students : RecordActivity(p)

NextQuiz ==
    \/ \E p \in Students, questions \in QuizBank : StartQuiz(p, questions)
    \/ \E p \in Students, answer \in Answers : AnswerQuiz(p, answer)

NextHistory == \E p \in Students : AddMessage(p)

NextDocument ==
    \/ \E p \in Students, m \in Media : StoreDocument(p, m)
    \/ \E p \in Students, m \in Media : StoreChunks(p, m)

NextFlash ==
    \/ \E p \in Students, cards \in Decks : StartFlashcards(p, cards)
    \/ \E p \in Students : RevealFlashcard(p)
    \/ \E p \in Students : NextFlashcard(p)

\* the gate: a delivery status, and from every sender a command and a document (all
\* the tasks these schedule are sends), on the days of the running month and the first
\* day of the next
GateEvents ==
    {Status} \cup
    UNION { { Text(p, " Help "), Document(p, "m1", "application/pdf") } : p \in Phones }

\* an event arrives while the run has events left and the loop has room
Arrives(e) == obs.events < MaxEvents /\ Len(procs) < MaxInFlight /\ Webhook(e)

NextGate ==
    \/ NewDay /\ today' <= DaysPerMonth
    \/ \E e \in GateEvents : Arrives(e)

\* the gate under requests in flight: a tap on a quiz button is handled by a coroutine
\* that awaits inside the request, other events arrive while it is suspended
RaceEvents ==
    UNION { { Text(p, " Help "), Button(p, "quiz_a") } : p \in Phones }

NextGateRace ==
    \/ NewDay /\ today' = DaysPerMonth
    \/ \E e \in RaceEvents : Arrives(e)
    \/ \E i \in DOMAIN procs : Step(i)

\* the document flows of one student: uploads of two documents, a language choice,
\* selections of a pipeline task and of the quiz, and the tasks these start
DocEvents ==
    { Document("u1", "m1", "application/pdf"), Document("u1", "m2", "application/pdf"),
      List("u1", "langpref_french"),
      Button("u1", "task_summarize"), Button("u1", "task_quiz") }

NextDocFlow ==
    \/ \E e \in DocEvents :
            obs.events < MaxDocEvents /\ Len(procs) < MaxInFlight /\ Webhook(e)
    \/ \E i \in DOMAIN procs : Step(i)

\* taps on the answer buttons of a running quiz: each is handled by a coroutine that
\* awaits inside its request, so the next tap arrives while it is suspended
TapEvents ==
    { Button("u1", "quiz_a"), Button("u1", "quiz_b"), Button("u2", "quiz_a") }

NextQuizRace ==
    \/ \E p \in Students : StartQuiz(p, Questions)
    \/ \E e \in TapEvents : Arrives(e)
    \/ \E i \in DOMAIN procs : Step(i)

\* the flow controllers that depend on a collaborator outside the process
FlowControllers ==
    {"process_chat", "process_url", "process_image", "process_audio"} \cup DocumentFlows

\* every flow of one student: a chat message, a link, a photo, a voice note, uploads of
\* a document that is read, of one that is not and of a file that is no PDF, and the three
\* kinds of task on a document
FlowEvents ==
    { Text("u1", "what is x"), Text("u1", "Read https://x.y now"),
      Image("u1", "m1"), Audio("u1", "m1"),
      Document("u1", "m1", "application/pdf"), Document("u1", "m3", "application/pdf"),
      Document("u1", "m0", "application/pdf"),
      Button("u1", "task_summarize"), Button("u1", "task_quiz"),
      Button("u1", "task_flashcard") }

NextFlows ==
    \/ \E e \in FlowEvents : Arrives(e)
    \/ \E i \in DOMAIN procs : Step(i)

\* taps on the buttons of a quiz and of a deck whose items lack keys, and a language
\* selection
EscapeEvents ==
    { Button("u1", "quiz_a"), Button("u1", "flash_reveal"), Button("u1", "flash_next"),
      List("u1", "lang_french") }

NextEscape ==
    \/ StartQuiz("u1", PartialQuiz)
    \/ StartFlashcards("u1", PartialDeck)
    \/ \E e \in EscapeEvents : Arrives(e)
    \/ \E i \in DOMAIN procs : Step(i)

\* bodies without a message (a body without "messages" is read as a delivery status),
\* and from every sender messages without the payload of their type
MalformedEvents ==
    {Status} \cup Broken \cup
    UNION { { Bare(p, "document"), Bare(p, "interactive"),
              BareReply(p, "button_reply"), BareReply(p, "list_reply") } : p \in Phones }

NextMalformed ==
    \/ NewDay
    \/ \E e \in MalformedEvents : Arrives(e)

\* language selections of the document flow and of the preference, on sessions with
\* and without a document
LanguageEvents ==
    UNION { { Document(p, "m1", "application/pdf"), Document(p, "m2", "application/pdf"),
              List(p, "lang_french"), List(p, "lang_hindi"), List(p, "langpref_english"),
              List(p, "lang_klingon") } : p \in Students }

NextLanguage == \E e \in LanguageEvents : Arrives(e)

\* texts with one link, with two, without a link, and the command that empties the
\* history
UrlEvents ==
    UNION { { Text(p, "Read https://x.y now"), Text(p, "See https://a.b and https://c.d"),
              Text(p, "what is x"), Text(p, "clear") } : p \in Students }

NextUrl ==
    \/ \E e \in UrlEvents : Arrives(e)
    \/ \E i \in DOMAIN procs : Step(i)

\* texts: keywords in other case and with blanks around, a keyword inside a longer
\* text, a keyword before a link, a link, a question, the empty text
TextBodies ==
    {" Help ", "STREAK", "HI", "usage", "clear", "menu", "lang", "help me",
     "Help https://x.y", "Read https://x.y now", "what is x", ""}

NextText ==
    \/ \E body \in TextBodies : Arrives(Text("u1", body))
    \/ \E i \in DOMAIN procs : Step(i)

\* uploads of one student: PDFs under both spellings of the type, and a picture sent
\* as a document; the chunks of the first document get cached; the clock advances
UploadEvents ==
    { Document("u1", "m1", "application/pdf"), Document("u1", "m2", "application/PDF"),
      Document("u1", "m2", "image/png") }

NextUpload ==
    \/ Tick
    \/ StoreChunks("u1", "m1")
    \/ \E e \in UploadEvents : obs.events < MaxUploads /\ Webhook(e)

\* messages of types the dispatcher has no handler for, on the days of a run
UnknownEvents ==
    UNION { { Other(p, "sticker"), Other(p, "location") } : p \in Phones }

NextUnknown ==
    \/ NewDay
    \/ \E e \in UnknownEvents : Arrives(e)

\* voice notes and a picture of two students, and the tasks they start
MediaEvents ==
    { Audio("u1", "m1"), Audio("u2", "m2"), Image("u1", "m1") }

NextMedia ==
    \/ \E e \in MediaEvents : Arrives(e)
    \/ \E i \in DOMAIN procs : Step(i)

\* a student in a quiz and in a deck sends events that belong to neither: texts, a
\* picture, a voice note, a language preference, one at a time (the quiz and the deck
\* move between the events)
IdleEvents ==
    { Text("u1", body) : body \in TextBodies } \cup
    { Image("u1", "m1"), Audio("u1", "m1"), List("u1", "langpref_french") }

NextIdle ==
    \/ procs = <<>> /\ StartQuiz("u1", Questions)
    \/ procs = <<>> /\ AnswerQuiz("u1", "A")
    \/ procs = <<>> /\ StartFlashcards("u1", Deck(2))
    \/ procs = <<>> /\ RevealFlashcard("u1")
    \/ \E e \in IdleEvents : procs = <<>> /\ Arrives(e)
    \/ \E i \in DOMAIN procs : Step(i)

\* the chat turns of one student, one after the other, on two days
NextChat ==
    \/ NewDay /\ today' = 2
    \/ /\ obs.events < MaxTurns /\ procs = <<>>
       /\ Webhook(Text("u1", "what is x"))
    \/ \E i \in DOMAIN procs : Step(i)

\* the session n completed chat turns leave behind: each appended its two entries and
\* recorded its activity
RECURSIVE Chatted(_, _, _, _)
Chatted(ss, phone, n, d) ==
    IF n = 0 THEN ss
    ELSE LET a == add_message(ss, phone, "user", "what is x")
             b == add_message(a, phone, "assistant", "response")
         IN  Chatted(record_activity(b, phone, d), phone, n - 1, d)

\* a student comes back to a conversation of BacklogTurns turns
Backlog(p) ==
    /\ sessions = <<>>
    /\ procs = <<>>
    /\ sessions' = Chatted(is_first_visit(sessions, p).ss, p, BacklogTurns, today)
    /\ call' = [op |-> "backlog", phone |-> p, pre |-> session_of(sessions, p)]
    /\ UNCHANGED <<today, now, tracker, store, appended, rl_window, obs, flow>>

\* a question and a link of one student, in flight together
PairEvents == { Text("u1", "what is x"), Text("u1", "Read https://x.y now") }

NextPairs ==
    \/ Backlog("u1")
    \/ \E e \in PairEvents : Arrives(e)
    \/ \E i \in DOMAIN procs : Step(i)

\* the buttons of one student: the five tasks and two ids without a task, before and
\* after the upload of a document
UnknownButtons == { Button("u1", id) : id \in {"task_translate", "btn_about"} }

ButtonEvents ==
    { Button("u1", id) : id \in {"task_summarize", "task_exam", "task_resume", "task_quiz",
                                 "task_flashcard"} }
    \cup UnknownButtons \cup { Document("u1", "m1", "application/pdf") }

NextButtons ==
    \/ \E e \in ButtonEvents : Arrives(e)
    \/ \E i \in DOMAIN procs : Step(i)

NextSession == \E p \in Students, name \in SessionOps : SessionOp(p, name)

NextQuota ==
    \/ NewDay
    \/ \E p \in Phones : TrackerIsAllowed(p)
    \/ GetUsageStats

NextRate == Tick \/ \E u \in Students : RateIsAllowed(u)

Next == NextStreak \/ NextQuiz \/ NextHistory \/ NextFlash \/ NextDocument \/ NextQuota \/ NextRate \/ NextGate \/ NextGateRace \/ NextDocFlow \/ NextSession \/ NextQuizRace \/ NextFlows \/ NextEscape \/ NextMalformed \/ NextLanguage \/ NextUrl \/ NextText \/ NextUpload \/ NextUnknown \/ NextMedia \/ NextIdle \/ NextChat \/ NextPairs \/ NextButtons

SpecStreak == Init /\ [][NextStreak]_vars
SpecQuiz == Init /\ [][NextQuiz]_vars
SpecHistory == Init /\ [][NextHistory]_vars
SpecFlash == Init /\ [][NextFlash]_vars
SpecDocument == Init /\ [][NextDocument]_vars
SpecQuota == Init /\ [][NextQuota]_vars
SpecRate == Init /\ [][NextRate]_vars
SpecGate == Init /\ [][NextGate]_vars
SpecGateRace == Init /\ [][NextGateRace]_vars
SpecDocFlow == Init /\ [][NextDocFlow]_vars
SpecSession == Init /\ [][NextSession]_vars
SpecFlows == Init /\ [][NextFlows]_vars
SpecMalformed == Init /\ [][NextMalformed]_vars
SpecLanguage == Init /\ [][NextLanguage]_vars
SpecUrl == Init /\ [][NextUrl]_vars
SpecText == Init /\ [][NextText]_vars
SpecUpload == Init /\ [][NextUpload]_vars
SpecUnknown == Init /\ [][NextUnknown]_vars
\* the event loop resumes a coroutine whose awaited call has returned
SpecMedia ==
    /\ Init /\ [][NextMedia]_vars
    /\ \A i \in 1..MaxInFlight : WF_vars(i \in DOMAIN procs /\ Step(i))
SpecIdle == Init /\ [][NextIdle]_vars
SpecChat == Init /\ [][NextChat]_vars
SpecPairs == Init /\ [][NextPairs]_vars

SpecButtons == Init /\ [][NextButtons]_vars

SpecEscape == Init /\ [][NextEscape]_vars
SpecQuizRace == Init /\ [][NextQuizRace]_vars
Spec == Init /\ [][Next]_vars

----------------------------------------------------------------------------
(* Study streak                                                            *)

\* the session of the last call, as the call left it
After == sessions[call.phone]

\* C1: every record_activity call leaves last_activity_date equal to today; the first
\* call on a fresh session sets streak to 1, a call on the day of last_activity_date
\* leaves streak unchanged, a call on the day after it increases streak by exactly 1,
\* and a call two or more days after it sets streak back to 1.
C1_StreakRule ==
    call.op = "record_activity" =>
        LET last == call.pre.last_activity_date
        IN  /\ After.last_activity_date = Some(call.at)
            /\ last = None => After.streak = 1
            /\ last = Some(call.at) => After.streak = call.pre.streak
            /\ (last # None /\ call.at - last[1] = 1) => After.streak = call.pre.streak + 1
            /\ (last # None /\ call.at - last[1] >= 2) => After.streak = 1

\* a third day in a row of activity
C1_Witness ==
    /\ call.op = "record_activity"
    /\ call.pre.last_activity_date = Some(call.at - 1)
    /\ call.pre.streak = 2
    /\ After.streak = 3

\* C2, as claimed: a record_activity call made on the day of last_activity_date leaves
\* docs_processed unchanged
C2_TotalOncePerDay ==
    (call.op = "record_activity" /\ call.pre.last_activity_date = Some(call.at)) =>
        After.docs_processed = call.pre.docs_processed

\* C2, amended: every record_activity call increases docs_processed by exactly 1, also
\* a call made on the day of last_activity_date; only the streak is counted once a day
C2_TotalCountsEveryCall ==
    call.op = "record_activity" =>
        /\ After.docs_processed = call.pre.docs_processed + 1
        /\ call.pre.last_activity_date = Some(call.at) => After.streak = call.pre.streak

\* a second activity on one day
C2_Witness ==
    /\ call.op = "record_activity"
    /\ call.pre.last_activity_date = Some(call.at)
    /\ call.pre.docs_processed = 1
    /\ After.docs_processed = 2

----------------------------------------------------------------------------
(* Quiz                                                                    *)

\* the question an answer_quiz call answers, and its stored letter ("" when it has none)
Asked == call.pre.quiz_questions[call.pre.quiz_index + 1]
StoredLetter == IF "correct" \in DOMAIN Asked THEN Asked.correct ELSE ""

\* the call found a running quiz with a current question
Answerable ==
    call.pre.quiz_active /\ call.pre.quiz_index < Len(call.pre.quiz_questions)

\* C3: on an active quiz with quiz_index < len(quiz_questions) an answer_quiz call
\* increases quiz_index by exactly 1, and quiz_score by exactly 1 when the submitted
\* letter equals the stored correct letter ignoring case and by 0 otherwise; no
\* answer_quiz call decreases quiz_index.
C3_AnswerAdvances ==
    call.op = "answer_quiz" =>
        /\ After.quiz_index >= call.pre.quiz_index
        /\ Answerable =>
            /\ After.quiz_index = call.pre.quiz_index + 1
            /\ After.quiz_score = call.pre.quiz_score
                    + (IF SameLetter(call.arg, StoredLetter) THEN 1 ELSE 0)

\* an upper-case answer to a question whose stored letter is lower-case scores
C3_Witness ==
    /\ call.op = "answer_quiz"
    /\ Answerable
    /\ call.arg = "B"
    /\ StoredLetter = "b"
    /\ After.quiz_score = call.pre.quiz_score + 1

\* C4: a started quiz is inactive exactly when quiz_index has reached
\* len(quiz_questions) (a session without a quiz is inactive), and an answer_quiz call
\* reports is_last exactly when it leaves quiz_index equal to len(quiz_questions): of the
\* calls that advance the index, only the one that reaches the end.
C4_ActiveUntilEnd ==
    /\ \A p \in DOMAIN sessions :
        /\ sessions[p].quiz_index <= Len(sessions[p].quiz_questions)
        /\ sessions[p].quiz_active =
                (sessions[p].quiz_index # Len(sessions[p].quiz_questions))
    /\ call.op = "answer_quiz" =>
        /\ call.ret.is_last = (After.quiz_index = Len(After.quiz_questions))
        /\ After.quiz_index # call.pre.quiz_index =>
                call.ret.is_last = (call.pre.quiz_index = Len(call.pre.quiz_questions) - 1)

\* the third answer of a quiz of three questions ends it
C4_Witness ==
    /\ call.op = "answer_quiz"
    /\ call.pre.quiz_active
    /\ Len(After.quiz_questions) = 3
    /\ After.quiz_index = 3
    /\ call.ret.is_last
    /\ ~After.quiz_active

\* C5: answer_quiz on a quiz that is not active, or whose quiz_index is at or past the
\* end, returns (incorrect, empty correct answer, is_last) and leaves quiz_index,
\* quiz_score, quiz_active and quiz_questions as they were.
C5_StaleAnswer ==
    (call.op = "answer_quiz" /\ ~Answerable) =>
        /\ call.ret = [is_correct |-> FALSE, correct |-> "", is_last |-> TRUE]
        /\ After.quiz_index = call.pre.quiz_index
        /\ After.quiz_score = call.pre.quiz_score
        /\ After.quiz_active = call.pre.quiz_active
        /\ After.quiz_questions = call.pre.quiz_questions

\* an answer that arrives after the quiz was completed
C5_Witness ==
    /\ call.op = "answer_quiz"
    /\ ~call.pre.quiz_active
    /\ call.pre.quiz_index = 2
    /\ Len(call.pre.quiz_questions) = 2
    /\ call.ret.is_last

----------------------------------------------------------------------------
(* Monthly conversation cap                                                *)

\* the tracker's stored period is the month of day d
SamePeriod(t, d) == t.current_month = MonthOf(d) /\ t.current_year = YearOf(d)

\* the users tracker t has counted on day d
CountedOn(t, d) == {u \in DOMAIN t.daily_users : t.daily_users[u] = Some(d)}

\* all calls tracker t has counted were made on day d
OnlyDay(t, d) ==
    /\ SamePeriod(t, d)
    /\ CountedOn(t, d) = DOMAIN t.daily_users
    /\ t.conversation_count = Cardinality(DOMAIN t.daily_users)

\* C6: with all calls on one calendar day, is_allowed admits a user not yet counted
\* while fewer than monthly_limit distinct users are counted and denies him afterwards;
\* a user already counted is allowed again and changes nothing; so conversation_count
\* is the number of distinct users admitted, one slot a user, and at most monthly_limit.
C6_OneSlotPerUserADay ==
    (call.op = "tracker.is_allowed" /\ OnlyDay(call.pre, call.at)) =>
        LET counted == DOMAIN call.pre.daily_users
        IN  /\ call.phone \in counted =>
                call.ret /\ tracker.conversation_count = call.pre.conversation_count
            /\ (call.phone \notin counted /\ Cardinality(counted) < tracker.monthly_limit) =>
                /\ call.ret
                /\ tracker.conversation_count = call.pre.conversation_count + 1
            /\ (call.phone \notin counted /\ Cardinality(counted) >= tracker.monthly_limit) =>
                ~call.ret
            /\ call.ret = (call.phone \in CountedOn(tracker, call.at))
            /\ tracker.conversation_count = Cardinality(CountedOn(tracker, call.at))
            /\ tracker.conversation_count <= tracker.monthly_limit

\* on one day, monthly_limit users are counted and one more is denied
C6_Witness ==
    /\ call.op = "tracker.is_allowed"
    /\ OnlyDay(call.pre, call.at)
    /\ Cardinality(DOMAIN call.pre.daily_users) = MonthlyLimit
    /\ call.phone \notin DOMAIN call.pre.daily_users
    /\ ~call.ret

\* C7: an is_allowed call that denies (the user is not counted today and
\* conversation_count >= monthly_limit, in the tracker's month) changes neither
\* conversation_count nor the map of last counted dates.
C7_DenialChangesNothing ==
    (call.op = "tracker.is_allowed" /\ ~call.ret) =>
        /\ SamePeriod(call.pre, call.at)
        /\ call.phone \notin CountedOn(call.pre, call.at)
        /\ call.pre.conversation_count >= call.pre.monthly_limit
        /\ tracker.conversation_count = call.pre.conversation_count
        /\ tracker.daily_users = call.pre.daily_users
        /\ tracker = call.pre

\* a user counted on an earlier day of the month is denied today
C7_Witness ==
    /\ call.op = "tracker.is_allowed"
    /\ ~call.ret
    /\ call.phone \in DOMAIN call.pre.daily_users
    /\ call.pre.daily_users[call.phone] # Some(call.at)

\* C8: an is_allowed or get_usage_stats call that finds the month or the year of today
\* different from the stored period adopts the new period and starts from an empty map
\* and a count of zero before it decides: get_usage_stats reports nothing used, and
\* is_allowed admits the caller as the first conversation of the month, also when the
\* tracker was full.
C8_ResetOnNewMonth ==
    (call.op \in {"tracker.is_allowed", "tracker.get_usage_stats"}
        /\ ~SamePeriod(call.pre, call.at)) =>
        /\ SamePeriod(tracker, call.at)
        /\ call.op = "tracker.get_usage_stats" =>
            /\ tracker.daily_users = <<>>
            /\ tracker.conversation_count = 0
            /\ call.ret.used = 0
        /\ call.op = "tracker.is_allowed" =>
            /\ call.ret
            /\ DOMAIN tracker.daily_users = {call.phone}
            /\ tracker.daily_users[call.phone] = Some(call.at)
            /\ tracker.conversation_count = 1

\* the first call of a month that follows a month with a full tracker
C8_Witness ==
    /\ call.op = "tracker.is_allowed"
    /\ ~SamePeriod(call.pre, call.at)
    /\ call.pre.conversation_count >= call.pre.monthly_limit
    /\ call.ret
    /\ tracker.conversation_count = 1

----------------------------------------------------------------------------
(* Rate limiter                                                            *)

\* the window of the last call's user, as the observer counts it
Window == rl_window[call.phone][1]

\* C9: with limit 5 and a window of 3600 s, is_allowed allows a call exactly when it is
\* among the first 5 calls of its window; the call that opens a window, the first one
\* made more than 3600 s after the running window opened included, is allowed and
\* leaves the stored state at count 1 with the call's time as the window start.
C9_FivePerWindow ==
    call.op = "rate_limiter.is_allowed" =>
        /\ call.ret = (Window.calls <= 5)
        /\ Window.calls = 1 =>
            /\ call.ret
            /\ store[call.phone] = [count |-> 1, first |-> call.at]
        /\ (call.pre # None /\ call.at - call.pre[1].first > 3600) => Window.calls = 1
        /\ store[call.phone].count <= 5

\* a window with a sixth, denied call has elapsed and the next call opens a new one
C9_Witness ==
    /\ call.op = "rate_limiter.is_allowed"
    /\ Window.before = 6
    /\ call.pre # None
    /\ call.pre[1].count = 5
    /\ call.at - call.pre[1].first > 3600
    /\ call.ret
    /\ store[call.phone] = [count |-> 1, first |-> call.at]

----------------------------------------------------------------------------
(* Chat history                                                            *)

\* the i-th of the last m entries of log
Recent(log, m, i) == log[Len(log) - m + i]

\* C10: chat_history holds at most 20 entries, and they are the most recently appended
\* ones in the order they were appended; after 25 appends these are the 6th to the 25th.
C10_LastTwenty ==
    \A p \in DOMAIN sessions :
        LET h == sessions[p].chat_history
            n == Len(appended[p])
            m == IF n < 20 THEN n ELSE 20
        IN  /\ Len(h) <= 20
            /\ Len(h) = m
            /\ \A i \in 1..m : h[i] = Recent(appended[p], m, i)
            /\ n = 25 => \A i \in 1..20 : h[i] = Entry(i + 5)

\* 25 messages were appended and the 6th is the oldest one kept
C10_Witness ==
    \E p \in DOMAIN sessions :
        /\ Len(appended[p]) = 25
        /\ Len(sessions[p].chat_history) = 20
        /\ sessions[p].chat_history[1].content = 6
        /\ sessions[p].chat_history[20].content = 25

----------------------------------------------------------------------------
(* Flashcards                                                              *)

\* the deck of a user who has started one
Started(p) == p \in DOMAIN sessions /\ sessions[p].flashcards # <<>>

\* C11: after start_flashcards with n >= 1 cards the deck is active and has a current
\* card while fewer than n next_flashcard calls were made on it; from the n-th call on
\* get_current_flashcard returns None and flash_active is false
C11_DeckActiveUntilExhausted ==
    \A p \in Students :
        Started(p) =>
            IF obs.advances[p] < Len(sessions[p].flashcards)
            THEN /\ sessions[p].flash_active
                 /\ get_current_flashcard(sessions, p) =
                        Some(sessions[p].flashcards[obs.advances[p] + 1])
            ELSE /\ ~sessions[p].flash_active
                 /\ get_current_flashcard(sessions, p) = None

\* a 7-card deck, its first card revealed, advanced six times, then once more
C11_Witness ==
    /\ call.op = "next_flashcard"
    /\ Len(After.flashcards) = 7
    /\ obs.advances[call.phone] = 7
    /\ call.pre.flash_active
    /\ ~After.flash_active
    /\ ~call.ret

\* C12: reveal_flashcard sets flash_revealed and leaves flash_index alone; next_flashcard
\* advances flash_index by one and clears flash_revealed; flash_revealed is never true
\* unless reveal_flashcard was called since flash_index last changed
C12_RevealedOnlyAfterReveal ==
    /\ call.op = "reveal_flashcard" =>
           /\ After.flash_revealed
           /\ After.flash_index = call.pre.flash_index
    /\ call.op = "next_flashcard" =>
           /\ After.flash_index = call.pre.flash_index + 1
           /\ ~After.flash_revealed
    /\ \A p \in Students :
           (p \in DOMAIN sessions /\ sessions[p].flash_revealed) => obs.shown[p]

\* a revealed card is advanced past: the card that comes up is not revealed
C12_Witness ==
    /\ call.op = "next_flashcard"
    /\ call.pre.flash_revealed
    /\ call.ret
    /\ ~After.flash_revealed

----------------------------------------------------------------------------
(* Documents                                                               *)

\* C13: store_document sets the session's media_id and filename to the given values and
\* resets doc_text_chunks to None, whatever was cached before
C13_NewDocumentClearsChunks ==
    call.op = "store_document" =>
        /\ After.media_id = Some(call.arg)
        /\ After.filename = Some(Filename(call.arg))
        /\ After.doc_text_chunks = None

\* a second document is stored over the cached chunks of the first
C13_Witness ==
    /\ call.op = "store_document"
    /\ call.pre.media_id # None
    /\ call.pre.media_id # Some(call.arg)
    /\ call.pre.doc_text_chunks # None
    /\ call.pre.doc_text_chunks # Some(<<>>)
    /\ After.doc_text_chunks = None

----------------------------------------------------------------------------
(* The request handler: quota gate and welcome                             *)

\* the last request got past the gate and asked is_first_visit
Visited == call.op = "webhook" /\ call.first # None

\* C15: is_first_visit returns true on the first call for a user and false on every
\* later call; the handler schedules the welcome message exactly when it returns true,
\* so at most once per user over any sequence of inbound events
C15_WelcomeOnce ==
    /\ Visited =>
           /\ call.first = Some(obs.visits[call.phone] = 1)
           /\ ~After.first_visit
           /\ Welcomes(call.bg) = IF call.first = Some(TRUE) THEN 1 ELSE 0
    /\ \A p \in Phones : obs.welcomes[p] <= 1

\* a user already welcomed sends a document: no second welcome
C15_Witness ==
    /\ Visited
    /\ call.first = Some(FALSE)
    /\ call.event.type = "document"
    /\ obs.visits[call.phone] = 2
    /\ obs.welcomes[call.phone] = 1


\* the last request carried a message, so the gate was asked
Gated == call.op = "webhook" /\ call.gate # None

\* the last request left the sessions and the rate limiter as they were
Untouched == sessions = call.pre.sessions /\ store = call.pre.store

\* C19 as stated: nothing is scheduled before is_allowed is evaluated, and a denial
\* leaves no effect but the limit-reached message
C19_NothingBeforeGate ==
    Gated =>
        /\ call.before = <<>>
        /\ call.gate = Some(FALSE) =>
               /\ call.bg = <<Send("send_message", call.phone, "limit reached")>>
               /\ Untouched

\* C19: the read receipt of the message is the one task scheduled before is_allowed is
\* evaluated; when the gate denies, the request schedules that receipt and the
\* limit-reached message and nothing else: is_first_visit is not called, no session and
\* no rate-limiter state changes, no handler is routed to
C19_GateAfterReadReceipt ==
    Gated =>
        /\ call.before = <<Send("mark_as_read", call.phone, "read")>>
        /\ call.gate = Some(FALSE) =>
               /\ call.bg = << Send("mark_as_read", call.phone, "read"),
                               Send("send_message", call.phone, "limit reached") >>
               /\ call.first = None
               /\ call.h = None
               /\ Untouched
               /\ tracker = call.pre.tracker

\* the first message of a new user is a PDF and is denied: no session, no welcome, no
\* rate-limiter entry
C19_Witness ==
    /\ Gated
    /\ call.gate = Some(FALSE)
    /\ call.event.type = "document"
    /\ call.phone \notin DOMAIN sessions
    /\ call.phone \notin DOMAIN store
    /\ obs.welcomes[call.phone] = 0


\* C17: whatever requests are suspended when an event is handled, is_allowed checks and
\* counts in one piece: conversation_count never exceeds monthly_limit, and it is the
\* number of admissions of a user on a day of the running month, so no slot is taken twice
C17_QuotaAtomic ==
    /\ tracker.conversation_count <= tracker.monthly_limit
    /\ Cardinality(obs.admitted) = tracker.conversation_count
    /\ Gated /\ call.gate = Some(FALSE) =>
           /\ call.pre.tracker.conversation_count = tracker.monthly_limit
           /\ <<call.phone, call.at>> \notin obs.admitted

\* one slot is left and a request that took none is suspended inside its handler: a
\* second user takes the slot, a third is denied
C17_Witness ==
    /\ Gated
    /\ call.gate = Some(FALSE)
    /\ Cardinality({x[1] : x \in obs.admitted}) = tracker.monthly_limit
    /\ \E i \in DOMAIN procs :
           /\ Head(procs[i].todo).fn = "handle_quiz_answer"
           /\ Head(procs[i].todo).phone # call.phone


----------------------------------------------------------------------------
(* Cached chunks                                                           *)

\* the task type a document flow hands to the generative-model client
TaskOf(co) ==
    CASE co.fn = "orchestrate_quiz" -> "quiz"
      [] co.fn = "orchestrate_flashcards" -> "flashcard"
      [] OTHER -> co.task_type

\* the task a selection schedules, if it schedules one
Selected(bg) == { i \in DOMAIN bg : bg[i].fn \in DocumentFlows }

\* C14: a task that starts on a session whose chunks were cached by an earlier task
\* on the document the session still holds starts no download and no extraction: it
\* hands the cached chunks, which are the chunks of that document, the task type of the
\* selection and the language of the session to the generative-model client; and a
\* selection schedules the task its button is mapped to
C14_CachedChunksReused ==
    /\ ( /\ call.op = "step"
         /\ call.fn \in DocumentFlows
         /\ call.hit )
       => /\ call.dl = 0
          /\ call.pc = "start"
                => /\ call.llm # None
                   /\ call.llm[1].chunks = call.pre.doc_text_chunks[1]
                   /\ call.llm[1].chunks = extract_and_chunk_text(call.pre.media_id[1])
                   /\ call.llm[1].task_type = TaskOf(call.co)
                   /\ call.llm[1].language = call.pre.language
    /\ ( /\ call.op = "webhook"
         /\ call.event.type = "interactive"
         /\ call.event.reply_type = "button_reply"
         /\ task_map(call.event.id) # None
         /\ call.gate = Some(TRUE)
         /\ session_of(call.pre.sessions, call.phone).media_id # None )
       => /\ Cardinality(Selected(call.bg)) = 1
          /\ \A i \in Selected(call.bg) :
                /\ call.bg[i].pc = "start"
                /\ TaskOf(call.bg[i]) = task_map(call.event.id)[1]

\* a pipeline task in French has started on chunks cached by an earlier task
C14_Witness ==
    /\ call.op = "step"
    /\ call.fn = "orchestrate_document_processing"
    /\ call.pc = "start"
    /\ call.hit
    /\ call.llm # None
    /\ call.llm[1].language = "French"
    /\ call.llm[1].task_type = "summarize"


----------------------------------------------------------------------------
(* Sessions of other users                                                 *)

\* the manager holding the session of phone alone, as ss holds it
Alone(ss, phone) == phone :> session_of(ss, phone)

\* C16: an operation keyed by A never fails and leaves a session for A; it changes no
\* field of the session of any other identifier, creates and removes no session but
\* A's; what it leaves of A's session depends on A's session alone; and get returns
\* the session the manager already holds for the identifier
C16_OwnSessionOnly ==
    call.op = "session"
        => /\ call.phone \in DOMAIN sessions
           /\ DOMAIN sessions = {q \in Students : q \in DOMAIN call.pre} \cup {call.phone}
           /\ \A B \in DOMAIN sessions \ {call.phone} : sessions[B] = call.pre[B]
           /\ sessions[call.phone]
                = Apply(call.name, Alone(call.pre, call.phone), call.phone, call.at)[call.phone]
           /\ (call.name \in Getters /\ call.phone \in DOMAIN call.pre)
                => sessions = call.pre
           /\ get(sessions, call.phone) = sessions

\* an operation has changed A's session while B's session holds state of its own
C16_Witness ==
    /\ call.op = "session"
    /\ call.name = "set_language"
    /\ call.phone \in DOMAIN call.pre
    /\ sessions[call.phone] # call.pre[call.phone]
    /\ \E B \in DOMAIN sessions \ {call.phone} : sessions[B] # UserSession(B)


----------------------------------------------------------------------------
(* Racing answers                                                          *)

\* the coroutines of handle_quiz_answer for p that are suspended
Answering(p) ==
    { i \in DOMAIN procs :
        Head(procs[i].todo).fn = "handle_quiz_answer" /\ Head(procs[i].todo).phone = p }

\* C18: whatever taps on the answer buttons are in flight, no answer is lost: for a
\* started quiz, quiz_index is the number of answers received on a current question
\* and quiz_score the number of those equal, up to case, to the stored letter of the
\* question current when the answer was received
C18_NoLostAnswer ==
    \A p \in Students :
        (p \in DOMAIN sessions /\ sessions[p].quiz_questions # <<>>)
            => /\ sessions[p].quiz_index = obs.answered[p]
               /\ sessions[p].quiz_score = obs.matched[p]

\* two answers of one user are being handled at once, and both were counted
C18_Witness ==
    \E p \in Students :
        /\ Cardinality(Answering(p)) = 2
        /\ p \in DOMAIN sessions
        /\ sessions[p].quiz_index = 2
        /\ sessions[p].quiz_score = 2


----------------------------------------------------------------------------
(* A message on every exit                                                 *)

\* C20: when a flow controller returns, by whatever path, it has sent at least one
\* message to the user
C20_AlwaysAnswers ==
    (call.op = "step" /\ call.exit /\ call.fn \in FlowControllers)
        => call.sent >= 1

\* a document task has returned after its download raised, having sent the apology
C20_Witness ==
    /\ call.op = "step"
    /\ call.exit
    /\ call.fn \in DocumentFlows
    /\ call.pc = "send_error"
    /\ call.dl = 1
    /\ call.sent = 1


----------------------------------------------------------------------------
(* Exceptions that reach the dispatcher                                    *)

\* C21: no exception leaves the handler of a quiz answer, of a flashcard reveal or
\* advance, of a list reply or a document task: none reaches the except clause of
\* handle_whatsapp_webhook, whatever the stored questions and cards
C21_NothingEscapes ==
    call.op \in {"webhook", "step"} => ~call.raised


----------------------------------------------------------------------------
(* Temporary files                                                         *)

\* the flows that keep the path of their download until they return
KeepsPath == {"orchestrate_document_processing", "process_image", "process_audio"}

----------------------------------------------------------------------------
(* Malformed events                                                        *)

\* the tasks of bg that put something in front of the user
UserFacing(bg) ==
    {i \in DOMAIN bg :
        bg[i].fn \in {"send_message", "send_interactive_buttons", "send_interactive_list"}}

\* C23: an event without entry, changes, messages or the payload of its type is
\* acknowledged and nothing more: the sessions, the quota and the rate limiter are as
\* before the request, and no message to the user is scheduled
C23_MalformedNoAction ==
    (call.op = "webhook" /\ call.event \in MalformedEvents) =>
        /\ sessions = call.pre.sessions
        /\ tracker = call.pre.tracker
        /\ store = call.pre.store
        /\ UserFacing(call.bg) = {}

----------------------------------------------------------------------------
(* Language selection                                                      *)

\* the task-choice buttons among the tasks of bg
TaskButtons(bg) ==
    {i \in DOMAIN bg : bg[i].fn = "send_interactive_buttons"
                       /\ bg[i].what = "what should I do"}

\* the request was a selection of the document flow's language list
PickedLanguage ==
    /\ call.op = "webhook" /\ call.gate = Some(TRUE)
    /\ call.event.type = "interactive" /\ call.event.reply_type = "list_reply"
    /\ call.event.id \in {"lang_french", "lang_hindi", "lang_english"}

\* C24: a lang_* selection sets the language of the session; the task-choice buttons
\* are scheduled only if the session has a document at that moment, and they name
\* the document of the session
C24_ButtonsNeedDocument ==
    PickedLanguage =>
        /\ sessions[call.phone].language = lang_map(call.event.id)[1]
        /\ TaskButtons(call.bg) # {} => sessions[call.phone].media_id # None
        /\ \A i \in TaskButtons(call.bg) : call.bg[i].about = sessions[call.phone].filename

----------------------------------------------------------------------------
(* Links                                                                   *)

\* the request routed a text with a link in it
UrlText ==
    /\ call.op = "webhook" /\ call.event.type = "text"
    /\ call.gate = Some(TRUE) /\ call.first = Some(FALSE)
    /\ findall(call.event.body) # <<>>

\* the request scheduled the side-flow, once, for the first link of the text, and
\* left the history of the sender alone
SideFlowScheduled ==
    /\ \E i \in DOMAIN call.bg :
          /\ call.bg[i].fn = "process_url"
          /\ call.bg[i].url = Head(findall(call.event.body))
          /\ \A j \in DOMAIN call.bg :
                call.bg[j].fn \in {"process_url", "process_chat"} => j = i
    /\ sessions[call.phone].chat_history =
          session_of(call.pre.sessions, call.phone).chat_history

\* the exchange process_url records once the summary is sent
Exchange(url) ==
    << [role |-> "user", content |-> "Summarize: " \o url],
       [role |-> "assistant", content |-> "summary"] >>

\* C25 as stated: a text with a link schedules the summarization of its first link,
\* and neither the request nor any step of the side-flow changes chat_history
C25_UrlBypassesHistory ==
    /\ UrlText => SideFlowScheduled
    /\ (call.op = "step" /\ call.fn = "process_url") =>
          sessions[call.phone].chat_history = call.pre.chat_history

\* C25 (amended): a text with a link schedules the summarization of its first link and
\* the request leaves chat_history alone; once the summary is sent the side-flow
\* appends the exchange (the request "Summarize: <url>" and the summary) to
\* chat_history, trimmed to max_history; its earlier steps leave chat_history alone
C25_UrlRecorded ==
    /\ UrlText => SideFlowScheduled
    /\ (call.op = "step" /\ call.fn = "process_url") =>
          sessions[call.phone].chat_history =
             IF call.exit
             THEN LastN(call.pre.chat_history \o Exchange(call.co.url), max_history)
             ELSE call.pre.chat_history

C25_Witness ==
    /\ call.op = "step" /\ call.fn = "process_url" /\ call.exit
    /\ call.co.url = "https://a.b"
    /\ call.pre.chat_history # <<>>
    /\ Len(sessions[call.phone].chat_history) = Len(call.pre.chat_history) + 2

----------------------------------------------------------------------------
(* Text routing                                                            *)

\* the keywords of handle_text
Keywords ==
    {"hi", "hello", "hey", "start", "help", "/help", "?", "streak", "/streak",
     "usage", "stats", "/usage", "clear", "reset", "/clear", "menu", "/menu",
     "lang", "language", "/lang"}

\* the request routed a text (the first text of a sender is answered by the welcome)
RoutedText ==
    /\ call.op = "webhook" /\ call.event.type = "text"
    /\ call.gate = Some(TRUE) /\ call.first = Some(FALSE)

\* the number of tasks of bg that run fn
Jobs(bg, fn) == Cardinality({i \in DOMAIN bg : bg[i].fn = fn})

\* C26: a routed text gets a command response, the link side-flow or free chat, and
\* one of them only: the command response if the trimmed text, in lower case, is a
\* keyword; else the side-flow if the text holds a link; else free chat
C26_OneRoute ==
    RoutedText =>
        LET body == call.event.body
            command == StripLower(body) \in Keywords
            link == findall(body) # <<>>
            urls == Jobs(call.bg, "process_url")
            chats == Jobs(call.bg, "process_chat")
        IN  /\ command => urls = 0 /\ chats = 0 /\ UserFacing(call.bg) # {}
            /\ (~command /\ link) => urls = 1 /\ chats = 0
            /\ (~command /\ ~link) => urls = 0 /\ chats = 1 /\ UserFacing(call.bg) = {}

C26_Witness ==
    /\ RoutedText /\ call.event.body = "Help https://x.y"
    /\ Jobs(call.bg, "process_url") = 1

----------------------------------------------------------------------------
(* Uploads                                                                 *)

\* the request routed a document
RoutedDocument ==
    /\ call.op = "webhook" /\ call.event.type = "document" /\ call.gate = Some(TRUE)

\* the document and the cached chunks of a session
DocumentOf(session) == <<session.media_id, session.filename, session.doc_text_chunks>>

\* the messages of bg other than the welcome of a first visit
Messages(bg) ==
    {i \in UserFacing(bg) : bg[i].what \notin {"welcome", "explore"}}

\* C27: a document reaches the document flow (store_document and the language picker)
\* only if its type is PDF and the rate limiter admits it; a document rejected by
\* either gate leaves the document and the cached chunks of the session as they were,
\* and the rejection is the only message of the handler (the dispatcher has scheduled
\* the read receipt, the reaction and, on a first visit, the welcome before it)
C27_DocumentGates ==
    RoutedDocument =>
        LET p == call.phone
            bg == call.bg
            before == session_of(call.pre.sessions, p)
            picker == {i \in DOMAIN bg : bg[i].fn = "send_interactive_list"}
            reached == picker # {} \/ DocumentOf(sessions[p]) # DocumentOf(before)
            pdf == is_pdf(call.event.mime_type)
            admitted == store # call.pre.store
            full == /\ p \in DOMAIN call.pre.store
                    /\ call.pre.store[p].count >= limit
                    /\ call.t - call.pre.store[p].first <= window_seconds
        IN  /\ reached => pdf /\ admitted /\ ~full
            /\ reached =>
                  /\ sessions[p].media_id = Some(call.event.id)
                  /\ Messages(bg) = picker /\ Cardinality(picker) = 1
            /\ ~reached =>
                  /\ DocumentOf(sessions[p]) = DocumentOf(before)
                  /\ \E i \in DOMAIN bg :
                        /\ Messages(bg) = {i}
                        /\ bg[i].fn = "send_message"
                        /\ bg[i].what = IF pdf THEN "rate limit" ELSE "only PDF"
                  /\ ~pdf => ~admitted
                  /\ pdf => full /\ ~admitted

C27_Witness ==
    /\ RoutedDocument /\ call.event.id = "m2" /\ is_pdf(call.event.mime_type)
    /\ \E i \in DOMAIN call.bg : call.bg[i].what = "rate limit"
    /\ sessions[call.phone].media_id = Some("m1")
    /\ sessions[call.phone].doc_text_chunks # None

----------------------------------------------------------------------------
(* Unknown message types                                                   *)

\* the types the dispatcher routes
RoutedTypes == {"document", "image", "audio", "interactive", "text"}

\* C28: a message of a type the dispatcher does not route is acknowledged and nothing
\* more: no message to the user is scheduled, and the sessions and the quota are as
\* before the request
C28_UnknownIgnored ==
    (call.op = "webhook" /\ call.event \in UnknownEvents) =>
        /\ call.event.type \notin RoutedTypes
        /\ UserFacing(call.bg) = {}
        /\ sessions = call.pre.sessions
        /\ tracker = call.pre.tracker

----------------------------------------------------------------------------
(* Generation failures                                                     *)

\* the keys the flows read from a question and from a card by subscript
\* (q['question'], card['front'], card['back'])
WellFormed(fn, item) ==
    IF fn = "orchestrate_quiz" THEN "question" \in DOMAIN item
    ELSE {"front", "back"} \subseteq DOMAIN item

\* the answer of the model is not a list of questions (of cards)
Malformed(fn, raw) ==
    \/ raw.kind # "list"
    \/ \E i \in DOMAIN raw.items : ~WellFormed(fn, raw.items[i])

\* the quiz and flashcard state of a session
RunState(session) ==
    << session.quiz_questions, session.quiz_index, session.quiz_score,
       session.quiz_active, session.flashcards, session.flash_index,
       session.flash_active, session.flash_revealed >>

\* a quiz or flashcard task resumes with the answer of the model
Generated ==
    /\ call.op = "step"
    /\ call.fn \in {"orchestrate_quiz", "orchestrate_flashcards"}
    /\ call.pc \in {"generate_quiz", "generate_flashcards"}

\* C29: when the answer of the model to a quiz or flashcard prompt is malformed, the
\* generator returns the empty list, the task sends the message that asks to try
\* again, and no run is started: the quiz and flashcard state of the session is as
\* before
C29_MalformedDegrades ==
    (Generated /\ Malformed(call.fn, call.o)) =>
        /\ IF call.fn = "orchestrate_quiz" THEN generate_quiz(call.o) = <<>>
           ELSE generate_flashcards(call.o) = <<>>
        /\ call.out = <<"could not generate">>
        /\ RunState(sessions[call.phone]) = RunState(call.pre)

----------------------------------------------------------------------------
(* Termination                                                             *)

\* C30: no task blocks for ever: whenever tasks are in flight, the time comes when
\* all of them have returned
C30_TasksTerminate == (procs # <<>>) ~> (procs = <<>>)

----------------------------------------------------------------------------
(* Idle runs                                                               *)

\* the tasks that texts, pictures and voice notes start
SideTasks == {"process_chat", "process_url", "process_image", "process_audio"}

\* C31: a text (chat, link or command), a picture, a voice note or a language
\* preference leaves the quiz and the deck of the sender as they were, in the request
\* and in every step of the task it starts
C31_RunsSitIdle ==
    /\ (call.op = "webhook" /\ call.event \in IdleEvents) =>
          RunState(session_of(sessions, call.event.from)) =
             RunState(session_of(call.pre.sessions, call.event.from))
    /\ (call.op = "step" /\ call.fn \in SideTasks) =>
          RunState(sessions[call.phone]) = RunState(call.pre)

C31_Witness ==
    /\ call.op = "webhook" /\ call.event = Text("u1", "clear")
    /\ call.gate = Some(TRUE) /\ call.first = Some(FALSE)
    /\ sessions["u1"].quiz_active /\ sessions["u1"].quiz_index = 1
    /\ sessions["u1"].flash_active /\ sessions["u1"].flash_revealed

----------------------------------------------------------------------------
(* Free chat                                                               *)

\* a step of a chat turn: its start (up to the call of the model), the return of the
\* model, the return of the send
ChatStep(pc) == call.op = "step" /\ call.fn = "process_chat" /\ call.pc = pc

\* the two entries of a turn: the message of the user, then the text the model call
\* returned
Turn(text, reply) ==
    << [role |-> "user", content |-> text], [role |-> "assistant", content |-> reply] >>

\* the streak fields of a session
Activity(session) == <<session.last_activity_date, session.streak, session.docs_processed>>

\* the turn started with the language and the last n entries of the history as context
ContextOf(n) ==
    /\ call.llm # None
    /\ call.llm[1].language = call.pre.language
    /\ call.llm[1].history = LastN(call.pre.chat_history, n)

\* C32 as stated: a turn gives the model the language and the last 20 entries of the
\* history, a successful turn appends the message of the user and the reply and
\* records activity after that, a turn whose generation raised appends nothing and
\* records no activity
C32_ChatTurn ==
    /\ ChatStep("start") => ContextOf(max_history)
    /\ ChatStep("chat_with_memory") =>
          /\ sessions[call.phone].chat_history =
                IF call.o = "response"
                THEN LastN(call.pre.chat_history \o Turn(call.co.text, call.o), max_history)
                ELSE call.pre.chat_history
          /\ Activity(sessions[call.phone]) = Activity(call.pre)
    /\ ChatStep("send_message") =>
          /\ sessions[call.phone].chat_history = call.pre.chat_history
          /\ sessions[call.phone].last_activity_date = Some(call.at)

\* C32 (amended): a turn reads the language and the history of the session and gives
\* the model the last 10 entries as context; when the model call returns, with the
\* reply or with the text that reports a failed generation, the turn appends two
\* entries, the message of the user and then that text, and only after sending it
\* records activity
C32_ChatTurnRecorded ==
    /\ ChatStep("start") =>
          /\ ContextOf(context_size)
          /\ sessions[call.phone].chat_history = call.pre.chat_history
          /\ Activity(sessions[call.phone]) = Activity(call.pre)
    /\ ChatStep("chat_with_memory") =>
          /\ sessions[call.phone].chat_history =
                LastN(call.pre.chat_history \o Turn(call.co.text, call.o), max_history)
          /\ call.out = <<call.o>>
          /\ Activity(sessions[call.phone]) = Activity(call.pre)
    /\ ChatStep("send_message") =>
          /\ sessions[call.phone].chat_history = call.pre.chat_history
          /\ sessions[call.phone].last_activity_date = Some(call.at)

C32_Witness ==
    /\ ChatStep("chat_with_memory") /\ call.o = "sorry"
    /\ Len(call.pre.chat_history) > context_size
    /\ Len(sessions[call.phone].chat_history) = Len(call.pre.chat_history) + 2
    /\ call.pre.last_activity_date # None
    /\ call.pre.last_activity_date # Some(call.at)

----------------------------------------------------------------------------
(* The order of the work of a task selection                               *)

\* the buttons that select a task on the active document
TaskSelections ==
    { Button("u1", id) : id \in {"task_summarize", "task_exam", "task_resume", "task_quiz",
                                 "task_flashcard"} }

\* the request was a task selection of a user with an active document
SelectedTask ==
    /\ call.op = "webhook"
    /\ call.gate = Some(TRUE)
    /\ call.event \in TaskSelections
    /\ session_of(call.pre.sessions, call.phone).media_id # None

\* C33: of the work of one task selection the "processing" notice is enqueued right
\* before the result task and the follow-up options right after it, as the last task;
\* nothing but sends precedes the notice, so the notice has been sent when the result
\* task is the first coroutine of the event left to run, and no notice waits behind a
\* result task in any queue
C33_NoticeBeforeResult ==
    /\ SelectedTask =>
         \E n \in DOMAIN call.bg :
            /\ call.bg[n] = Send("send_message", call.phone, "processing")
            /\ n + 2 = Len(call.bg)
            /\ call.bg[n + 1].fn \in DocumentFlows
            /\ call.bg[n + 2].fn = "send_more_options"
            /\ \A m \in 1..n : call.bg[m].fn \in Sends
            /\ procs # <<>>
            /\ procs[Len(procs)].todo = <<call.bg[n + 1], call.bg[n + 2]>>
    /\ \A i \in DOMAIN procs : \A j \in DOMAIN procs[i].todo :
         procs[i].todo[j].fn \in Sends => procs[i].todo[j].what # "processing"

\* a quiz was selected on the active document while an earlier task was still running
C33_Witness ==
    /\ SelectedTask
    /\ call.event.id = "task_quiz"
    /\ Len(procs) = 2
    /\ Head(procs[2].todo).fn = "orchestrate_quiz"

----------------------------------------------------------------------------
(* The cached chunks and a new upload                                      *)

\* C34: the chunks on a session are none or the chunks of the document the session
\* refers to, whatever upload arrives while a task of the user is suspended
C34_ChunksOfCurrentDocument ==
    \A p \in DOMAIN sessions :
        sessions[p].doc_text_chunks # None =>
            /\ sessions[p].media_id # None
            /\ sessions[p].doc_text_chunks[1] = extract_and_chunk_text(sessions[p].media_id[1])

----------------------------------------------------------------------------
(* The end of a quiz                                                       *)

\* the request was a tap on an answer button
QuizTap ==
    /\ call.op = "webhook"
    /\ call.gate = Some(TRUE)
    /\ call.event \in TapEvents

\* C35: the completion summary and the activity belong to the answer that ends a
\* started quiz: a tap that arrives while no quiz is active starts no handler on the way
\* to the summary, and for a user who never started a quiz no handler sends a summary
\* or records activity
C35_SummaryOncePerQuiz ==
    /\ (QuizTap /\ ~session_of(call.pre.sessions, call.phone).quiz_active)
         => \A i \in DOMAIN call.h : ~call.h[i].ret.is_last
    /\ ( /\ call.op = "step"
         /\ call.fn = "handle_quiz_answer"
         /\ call.pre.quiz_questions = <<>> )
         => /\ call.pc # "send_feedback" \/ call.out = <<>>
            /\ sessions[call.phone] = call.pre

----------------------------------------------------------------------------
(* The first event of a user                                               *)

\* the request was the first admitted event of its user
FirstEvent ==
    /\ call.op = "webhook"
    /\ call.gate = Some(TRUE)
    /\ call.first = Some(TRUE)

\* the welcome and its buttons
Welcome(p) ==
    << Send("send_message", p, "welcome"), Send("send_interactive_buttons", p, "explore") >>

\* the tasks of the request after the read receipt and the welcome
AfterWelcome == SubSeq(call.bg, 4, Len(call.bg))

\* C36: the first admitted event of a user is welcomed; a text is answered with the
\* welcome and its buttons alone and is not routed: no reaction, no command response, no
\* link or chat task, and the session is the new session as is_first_visit left it, its
\* chat_history empty; an event of another type is routed to the handler of its type
\* after the welcome: a PDF is stored and gets the language list, a photo and a voice
\* note get their task, a task button is answered by the button handler
C36_FirstEvent ==
    FirstEvent =>
        /\ Len(call.bg) >= 3
        /\ SubSeq(call.bg, 1, 3) = call.before \o Welcome(call.phone)
        /\ call.event.type = "text" =>
                /\ AfterWelcome = <<>>
                /\ call.h = <<>>
                /\ sessions[call.phone] =
                        [UserSession(call.phone) EXCEPT !.first_visit = FALSE]
                /\ sessions[call.phone].chat_history = <<>>
        /\ call.event.type = "document" =>
                /\ AfterWelcome = << Send("send_reaction", call.phone, "document"),
                                     Send("send_interactive_list", call.phone,
                                          "choose language") >>
                /\ sessions[call.phone].media_id = Some(call.event.id)
        /\ call.event.type = "image" =>
                /\ Head(AfterWelcome) = Send("send_reaction", call.phone, "image")
                /\ Jobs(AfterWelcome, "process_image") = 1
        /\ call.event.type = "audio" =>
                /\ Head(AfterWelcome) = Send("send_reaction", call.phone, "audio")
                /\ Jobs(AfterWelcome, "process_audio") = 1
        /\ call.event.type = "interactive" =>
                AfterWelcome = <<Send("send_message", call.phone, "no active document")>>

\* the first event of a user was a question, and it got the welcome alone
C36_Witness ==
    /\ FirstEvent
    /\ call.event = Text("u1", "what is x")
    /\ Len(call.bg) = 3
    /\ procs = <<>>

----------------------------------------------------------------------------
(* The position in a deck                                                  *)

\* C37: whatever reveal and next taps arrive, also after the deck is exhausted,
\* flash_index never exceeds the number of cards of the deck
C37_FlashIndexBounded ==
    \A p \in DOMAIN sessions :
        sessions[p].flash_index <= Len(sessions[p].flashcards)

----------------------------------------------------------------------------
(* The counters of a quiz                                                  *)

\* C38: in every state the quiz operations reach, the score counts answers among
\* those given and the answers given are questions of the list:
\* 0 <= quiz_score <= quiz_index <= len(quiz_questions); and an active quiz has a
\* current question
C38_QuizBounds ==
    \A p \in DOMAIN sessions :
        /\ 0 <= sessions[p].quiz_score
        /\ sessions[p].quiz_score <= sessions[p].quiz_index
        /\ sessions[p].quiz_index <= Len(sessions[p].quiz_questions)
        /\ sessions[p].quiz_active =>
                /\ sessions[p].quiz_index < Len(sessions[p].quiz_questions)
                /\ get_current_question(sessions, p) # None

\* a quiz of three questions is running after a wrong and a right answer
C38_Witness ==
    \E p \in DOMAIN sessions :
        /\ sessions[p].quiz_active
        /\ sessions[p].quiz_score = 1
        /\ sessions[p].quiz_index = 2
        /\ Len(sessions[p].quiz_questions) = 3
        /\ call.op = "answer_quiz"

----------------------------------------------------------------------------
(* The pairs of the history                                                *)

\* the reply recorded after the message is a reply to it: the summary after a request
\* for one, a text of the model call after a question
RepliesTo(message, reply) ==
    /\ message.role = "user"
    /\ reply.role = "assistant"
    /\ IF message.content = "Summarize: https://x.y"
       THEN reply.content = "summary"
       ELSE message.content = "what is x" /\ reply.content \in Replies

\* h is made of whole pairs: a message of the user, then the reply to it
Paired(h) ==
    /\ Len(h) % 2 = 0
    /\ \A k \in 1..(Len(h) \div 2) : RepliesTo(h[2 * k - 1], h[2 * k])

\* the step in which a chat or link task records its exchange
Recording ==
    /\ call.op = "step"
    /\ \/ call.fn = "process_chat" /\ call.pc = "chat_with_memory"
       \/ call.fn = "process_url" /\ call.pc = "send_message"

\* C39: whatever chat and link tasks of a user are in flight together, a task appends
\* its user entry and the reply to it next to each other, at the end of the history as
\* the task found it (cut to the last max_history entries), and in every state the
\* history is made of whole pairs of a message and the reply to that message
C39_PairsStayTogether ==
    /\ \A p \in DOMAIN sessions : Paired(sessions[p].chat_history)
    /\ Recording =>
         LET turn == IF call.fn = "process_chat"
                     THEN Turn(call.co.text, call.o)
                     ELSE Turn("Summarize: " \o call.co.url, "summary")
         IN  sessions[call.phone].chat_history =
                LastN(call.pre.chat_history \o turn, max_history)

\* a link task records its exchange on a full history while a chat task of the same
\* user waits for the model
C39_Witness ==
    /\ Recording
    /\ call.fn = "process_url"
    /\ Len(call.pre.chat_history) = max_history
    /\ \E i \in DOMAIN procs :
         /\ Head(procs[i].todo).fn = "process_chat"
         /\ Head(procs[i].todo).pc = "chat_with_memory"
         /\ Head(procs[i].todo).phone = call.phone

----------------------------------------------------------------------------
(* Task buttons without a document                                         *)

\* the tasks of the request after the read receipt and the welcome of a first visit
Scheduled ==
    SubSeq(call.bg, IF call.first = Some(TRUE) THEN 4 ELSE 2, Len(call.bg))

\* the request was a button of a user admitted by the gate
ButtonTap(ids) ==
    /\ call.op = "webhook"
    /\ call.gate = Some(TRUE)
    /\ call.event \in ids

\* C40: a task button of a user whose session has no document schedules the "no active
\* document" message and nothing else: no document, quiz or flashcard task, no
\* follow-up, no handler left waiting, and the session still without a document; a
\* button whose id is neither a task nor a known button schedules nothing
C40_TaskNeedsDocument ==
    /\ ( /\ ButtonTap(TaskSelections)
         /\ session_of(call.pre.sessions, call.phone).media_id = None )
         => /\ Scheduled = <<Send("send_message", call.phone, "no active document")>>
            /\ call.h = <<>>
            /\ \A i \in DOMAIN call.bg : call.bg[i].fn \in Sends
            /\ sessions[call.phone].media_id = None
            /\ sessions[call.phone].doc_text_chunks = None
    /\ ButtonTap(UnknownButtons)
         => /\ Scheduled = <<>>
            /\ call.h = <<>>

\* the quiz was selected by a returning user who has not uploaded anything
C40_Witness ==
    /\ ButtonTap(TaskSelections)
    /\ call.event.id = "task_quiz"
    /\ call.first = Some(FALSE)
    /\ session_of(call.pre.sessions, call.phone).media_id = None
    /\ Len(call.bg) = 2

============================================================================
